---- MODULE Spec2Model ----
(***************************************************************************)
(* audible-converter (src/main.js, lines 347-851: the current version of   *)
(* the script; lines 1-346 hold its earlier version).                      *)
(*                                                                         *)
(* The model covers the command line actions `main` (convert a batch of    *)
(* files), `list`, `checksum`, `download` and `lookup`, with the promise   *)
(* chains they run: fetchMetadata (ffprobe and fetchChecksum side by       *)
(* side), the activation byte resolution (fetchActivationBytes,            *)
(* fetchActivationBytesFromDevices), the three ffmpeg stages of converter  *)
(* with their progress reports, extractDownloadURL and download, rcrack    *)
(* and lookupChecksum.                                                     *)
(*                                                                         *)
(* JavaScript strings are sequences of one-character strings, so that      *)
(* trim, toLowerCase, toUpperCase, slice and the hex rendering are         *)
(* computed as the code computes them.                                     *)
(***************************************************************************)
EXTENDS Integers, Sequences, FiniteSets, TLC

\* ------------------------------------------------------------------ bounds
\* Longest batch of files the glob pattern expands to.
MaxFiles == 2
\* Most values under the registry key; also the largest device number asked for.
MaxDevices == 2
\* Longest response body of a download, in bytes.
MaxBytes == 2
\* Most 'data' events of the standard output of the rcrack subprocess.
MaxChunks == 2

\* ------------------------------------------------------- program constants
\* fetchChecksum: read(fd, buffer, 0, buffer.length, 653)
ChecksumPosition == 653
\* fetchChecksum: Buffer.alloc(20)
ChecksumLength == 20
\* extractBytes: byteArray.slice(0, 4)
ActivationLength == 4

\* ------------------------------------------------------------ JS values
Undefined == [kind |-> "undefined"]
Bool(b) == [kind |-> "boolean", b |-> b]
Str(s) == [kind |-> "string", str |-> s]

\* The truthiness JavaScript gives a value in `x ? a : b`, `!x`, `x || y`, `x && y`.
\* A non-empty string is truthy, the string "0" included.
Truthy(v) ==
  CASE v.kind = "undefined" -> FALSE
    [] v.kind = "boolean" -> v.b
    [] v.kind = "string" -> v.str /= <<>>

\* ------------------------------------------------------------ strings
LowerAlpha == <<"a","b","c","d","e","f","g","h","i","j","k","l","m",
                "n","o","p","q","r","s","t","u","v","w","x","y","z">>
UpperAlpha == <<"A","B","C","D","E","F","G","H","I","J","K","L","M",
                "N","O","P","Q","R","S","T","U","V","W","X","Y","Z">>

toUpperCaseChar(c) ==
  IF \E i \in 1..26 : LowerAlpha[i] = c
  THEN UpperAlpha[CHOOSE i \in 1..26 : LowerAlpha[i] = c]
  ELSE c

toLowerCaseChar(c) ==
  IF \E i \in 1..26 : UpperAlpha[i] = c
  THEN LowerAlpha[CHOOSE i \in 1..26 : UpperAlpha[i] = c]
  ELSE c

\* String.prototype.toUpperCase / toLowerCase
toUpperCase(s) == [i \in 1..Len(s) |-> toUpperCaseChar(s[i])]
toLowerCase(s) == [i \in 1..Len(s) |-> toLowerCaseChar(s[i])]

\* String.prototype.trim: white space is dropped at both ends only.
RECURSIVE trimStart(_)
trimStart(s) == IF s /= <<>> /\ Head(s) = " " THEN trimStart(Tail(s)) ELSE s
RECURSIVE trimEnd(_)
trimEnd(s) ==
  IF s /= <<>> /\ s[Len(s)] = " " THEN trimEnd(SubSeq(s, 1, Len(s) - 1)) ELSE s
trim(s) == trimEnd(trimStart(s))

\* s.slice(-n): the last n characters, the whole string when it is shorter.
sliceLast(s, n) == IF Len(s) <= n THEN s ELSE SubSeq(s, Len(s) - n + 1, Len(s))

\* Array.prototype.reverse
reverse(a) == [i \in 1..Len(a) |-> a[Len(a) + 1 - i]]

\* ------------------------------------------------------------ hex rendering
HexDigits == <<"0","1","2","3","4","5","6","7","8","9","a","b","c","d","e","f">>

\* Number(d).toString(16), for the byte values 0..255: lowercase digits with
\* no leading zero, so one digit below 16.
RECURSIVE numberToString16(_)
numberToString16(d) ==
  IF d < 16 THEN <<HexDigits[d + 1]>>
  ELSE Append(numberToString16(d \div 16), HexDigits[(d % 16) + 1])

\* toHex without the '0' put in front: a byte below 16 gives one digit.
toHexUnpadded(d) == toUpperCase(numberToString16(d))

\* ('0' + (Number(d).toString(16))).slice(-2).toUpperCase()
toHex(d) == toUpperCase(sliceLast(<<"0">> \o numberToString16(d), 2))

\* _.map(byteArray, toHex).join('')
RECURSIVE bytesToHex(_)
bytesToHex(byteArray) ==
  IF byteArray = <<>> THEN <<>>
  ELSE toHex(Head(byteArray)) \o bytesToHex(Tail(byteArray))

\* extractBytes without .slice(0, 4): the whole array.
extractBytesWhole(byteArray) == bytesToHex(reverse(byteArray))

\* extractBytes without .reverse(): the bytes as they are stored.
extractBytesUnreversed(byteArray) ==
  bytesToHex(SubSeq(byteArray, 1,
                    IF Len(byteArray) < ActivationLength
                    THEN Len(byteArray) ELSE ActivationLength))

\* bytesToHex(byteArray.slice(0, 4).reverse())
extractBytes(byteArray) ==
  bytesToHex(reverse(SubSeq(byteArray, 1,
                            IF Len(byteArray) < ActivationLength
                            THEN Len(byteArray) ELSE ActivationLength)))

\* ------------------------------------------------------------ decimal strings
Digits == <<"0","1","2","3","4","5","6","7","8","9">>
IsDigit(c) == \E i \in 1..10 : Digits[i] = c
DigitValue(c) == (CHOOSE i \in 1..10 : Digits[i] = c) - 1

\* The string commander hands over for `-d <number>`: the decimal digits typed.
RECURSIVE numberToString10(_)
numberToString10(n) ==
  IF n < 10 THEN <<Digits[n + 1]>>
  ELSE Append(numberToString10(n \div 10), Digits[(n % 10) + 1])

\* A property key names an array element when it is the canonical decimal
\* rendering of the element's index ("0", "1", "10"; not "", "01", "undefined").
IsArrayIndex(s) ==
  /\ s /= <<>>
  /\ \A i \in 1..Len(s) : IsDigit(s[i])
  /\ (Len(s) > 1 => s[1] /= "0")

RECURSIVE digitsValue(_)
digitsValue(s) ==
  IF s = <<>> THEN 0
  ELSE digitsValue(SubSeq(s, 1, Len(s) - 1)) * 10 + DigitValue(s[Len(s)])

\* ------------------------------------------------------------ timemarks
\* s.split(sep) for a separator of one character.
RECURSIVE split(_, _)
split(s, sep) ==
  IF \A i \in 1..Len(s) : s[i] /= sep THEN <<s>>
  ELSE LET k == CHOOSE i \in 1..Len(s) : s[i] = sep /\ \A j \in 1..(i - 1) : s[j] /= sep
       IN <<SubSeq(s, 1, k - 1)>> \o split(SubSeq(s, k + 1, Len(s)), sep)

RECURSIVE pow10(_)
pow10(n) == IF n = 0 THEN 1 ELSE 10 * pow10(n - 1)

\* The number a decimal string ("02", "3", "03.45") is coerced to by `*` and by
\* Math.floor, as the fraction num/den.
toNumber(s) ==
  LET parts == split(s, ".")
      frac == IF Len(parts) > 1 THEN parts[2] ELSE <<>>
  IN [num |-> digitsValue(parts[1] \o frac), den |-> pow10(Len(frac))]

\* Math.floor(x), x >= 0
floor(x) == x.num \div x.den

\* The numbers of JavaScript a division gives: a finite one, or NaN (0 / 0), or
\* Infinity (x / 0, x > 0); Math.floor leaves the last two as they are.
Finite(n) == [kind |-> "finite", val |-> n]
NaN == [kind |-> "NaN", val |-> 0]
Infinity == [kind |-> "Infinity", val |-> 0]

\* Math.floor(num / den), num >= 0, den >= 0
floorOfQuotient(num, den) ==
  IF den = 0
  THEN IF num = 0 THEN NaN ELSE Infinity
  ELSE Finite(floor([num |-> num, den |-> den]))

\* currentTimemarkToPercent with the seconds left unfloored.
currentTimemarkToPercentUnfloored(timemark, total) ==
  LET t == split(timemark, ":")
      h == toNumber(t[1])
      m == toNumber(t[2])
      s == toNumber(t[3])
  IN floorOfQuotient(((h.num * 3600 * m.den * s.den) + (m.num * 60 * h.den * s.den)
                        + (s.num * h.den * m.den)) * 100,
                     h.den * m.den * s.den * total)

\* Math.floor(((timemark[0] * 3600) + (timemark[1] * 60) + Math.floor(timemark[2]))
\*            * 100 / total)
currentTimemarkToPercent(timemark, total) ==
  LET t == split(timemark, ":")
      h == toNumber(t[1])
      m == toNumber(t[2])
  IN floorOfQuotient(((h.num * 3600 * m.den) + (m.num * 60 * h.den)
                        + (floor(toNumber(t[3])) * h.den * m.den)) * 100,
                     h.den * m.den * total)

\* ------------------------------------------------------------ the license file
\* \w of a regular expression: a letter, a digit or the underscore.
IsWordChar(c) ==
  \/ \E i \in 1..26 : LowerAlpha[i] = c \/ UpperAlpha[i] = c
  \/ IsDigit(c)
  \/ c = "_"

\* The length of the longest run of [\w-] characters of s from position p on.
RECURSIVE wordRun(_, _)
wordRun(s, p) ==
  IF p <= Len(s) /\ (IsWordChar(s[p]) \/ s[p] = "-") THEN 1 + wordRun(s, p + 1) ELSE 0

\* The length of the longest run of [^&] characters of s from position p on.
RECURSIVE notAmpRun(_, _)
notAmpRun(s, p) ==
  IF p <= Len(s) /\ s[p] /= "&" THEN 1 + notAmpRun(s, p + 1) ELSE 0

\* What String.prototype.match returns: null, or the array of the match.
Null == [matched |-> FALSE, group |-> <<>>]
Matched(g) == [matched |-> TRUE, group |-> g]

\* ([\w-]+[^&]) tried at position p: the longest run of [\w-], then one more
\* character that is not '&'; when '&' or the end of the text follows the run,
\* the run gives up its last character to [^&], so it has to be two long.
wordsThenNotAmp(s, p) ==
  LET n == wordRun(s, p)
  IN IF n >= 1 /\ p + n <= Len(s) /\ s[p + n] /= "&"
     THEN Matched(SubSeq(s, p, p + n))
     ELSE IF n >= 2 THEN Matched(SubSeq(s, p, p + n - 1))
     ELSE Null

\* ([^&]+) tried at position p.
notAmps(s, p) ==
  LET n == notAmpRun(s, p)
  IN IF n >= 1 THEN Matched(SubSeq(s, p, p + n - 1)) ELSE Null

\* The group of a pattern tried at position p.
group(name, s, p) ==
  IF name = "wordsThenNotAmp" THEN wordsThenNotAmp(s, p) ELSE notAmps(s, p)

\* content.match(/key=(group)/): the leftmost place where the key is followed
\* by a match of the group.
match(content, key, name) ==
  LET at(i) == /\ i + Len(key) - 1 <= Len(content)
               /\ SubSeq(content, i, i + Len(key) - 1) = key
               /\ group(name, content, i + Len(key)).matched
      places == { i \in 1..Len(content) : at(i) }
  IN IF places = {} THEN Null
     ELSE group(name, content,
                (CHOOSE i \in places : \A j \in places : i <= j) + Len(key))

KeyCustId == <<"c","u","s","t","_","i","d","=">>
KeyProductId == <<"p","r","o","d","u","c","t","_","i","d","=">>
KeyCodec == <<"c","o","d","e","c","=">>
KeyTitle == <<"t","i","t","l","e","=">>

\* `https://cds.audible.de/download?product_id=${productId}&cust_id=${custId}&codec=${codec}`
downloadURL(productId, custId, codec) ==
  [host |-> "cds.audible.de",
   path |-> <<"/","d","o","w","n","l","o","a","d","?">> \o KeyProductId \o productId
              \o <<"&">> \o KeyCustId \o custId \o <<"&">> \o KeyCodec \o codec]

\* sanitize(name): the characters no file name may hold are dropped.
sanitize(name) ==
  SelectSeq(name, LAMBDA c : c \notin { "/", "?", "<", ">", "\\", ":", "*", "|", "\n" })

\* ------------------------------------------------------------ output paths
\* The place of the last c in s, 0 when there is none.
lastIndexOf(s, c) ==
  IF \A i \in 1..Len(s) : s[i] /= c THEN 0
  ELSE CHOOSE i \in 1..Len(s) : s[i] = c /\ \A j \in (i + 1)..Len(s) : s[j] /= c

\* path.dirname(p), path.basename(p, ext) and path.extname(p) of a path that
\* does not end in a separator.
dirname(p) ==
  IF lastIndexOf(p, "/") = 0 THEN <<".">>
  ELSE IF lastIndexOf(p, "/") = 1 THEN <<"/">>
  ELSE SubSeq(p, 1, lastIndexOf(p, "/") - 1)

extname(p) ==
  LET base == SubSeq(p, lastIndexOf(p, "/") + 1, Len(p))
  IN IF lastIndexOf(base, ".") <= 1 THEN <<>>
     ELSE SubSeq(base, lastIndexOf(base, "."), Len(base))

basename(p, ext) ==
  LET base == SubSeq(p, lastIndexOf(p, "/") + 1, Len(p))
  IN IF /\ ext /= <<>>
        /\ Len(ext) < Len(base)
        /\ SubSeq(base, Len(base) - Len(ext) + 1, Len(base)) = ext
     THEN SubSeq(base, 1, Len(base) - Len(ext))
     ELSE base

\* path.resolve(p): p made absolute from the working directory, /w.
resolve(p) == IF p /= <<>> /\ p[1] = "/" THEN p ELSE <<"/","w","/">> \o p

\* path.format({ dir, name, ext })
format(dir, name, ext) == dir \o <<"/">> \o name \o ext

\* converter's .then((metadata) => ...): the paths of the three artifacts.
NoOutputs == [coverImage |-> <<>>, outputFile |-> <<>>, loopedFile |-> <<>>]
converterThen(inputFile, prog, metadata) ==
  LET outputDirectory ==
        IF Truthy(prog.path) THEN resolve(prog.path.str) ELSE dirname(inputFile)
      outputFilename ==
        IF Truthy(prog.output)
        THEN sanitize(basename(prog.output.str, extname(prog.output.str)))
        ELSE sanitize(metadata.artist \o <<" ","-"," ">> \o metadata.title
                        \o <<" ","[">> \o metadata.date \o <<"]">>)
  IN [coverImage |-> format(outputDirectory, outputFilename, <<".","p","n","g">>),
      outputFile |-> format(outputDirectory, outputFilename, <<".","m","4","a">>),
      loopedFile |-> format(outputDirectory, outputFilename, <<".","m","4","v">>)]

\* ------------------------------------------------------------ rcrack's output
IsHexDigit(c) ==
  \/ IsDigit(c)
  \/ \E i \in 1..6 : LowerAlpha[i] = c \/ UpperAlpha[i] = c

Hex == <<"h","e","x",":">>

\* output.toString().match(/hex:([a-fA-F0-9]{8})/)
matchHex(output) ==
  LET at(i) == /\ i + 11 <= Len(output)
               /\ SubSeq(output, i, i + 3) = Hex
               /\ \A j \in (i + 4)..(i + 11) : IsHexDigit(output[j])
      places == { i \in 1..Len(output) : at(i) }
  IN IF places = {} THEN Null
     ELSE LET i == CHOOSE k \in places : \A j \in places : k <= j
          IN Matched(SubSeq(output, i + 4, i + 11))

\* ------------------------------------------------------------ results, errors
Error(msg, arg) == [msg |-> msg, arg |-> arg]
NoError == Error("", Undefined)

ErrNoRegedit == Error("Optional dependency regedit is not installed.", Undefined)
ErrRegistry == Error("regedit: the registry could not be read", Undefined)
ErrNoDevices == Error("Could not find any Audible Activation Bytes!", Undefined)
ErrDeviceNotFound(device) ==
  Error("Device Nr. <program.device> not found! Please use the list command to get your devices.",
        device)
ErrNotAAX == Error("Not a valid AAX File!", Undefined)
ErrTagsUndefined == Error("TypeError: Cannot read property major_brand of undefined", Undefined)
ErrProbe == Error("ffprobe failed", Undefined)
ErrOpen == Error("open failed", Undefined)
ErrRead == Error("read failed", Undefined)
ErrFfmpeg(stage) == Error("ffmpeg failed", Str(stage))
ErrReadFile == Error("readFile: the file could not be read", Undefined)
ErrPopOfNull == Error("TypeError: Cannot read property pop of null", Undefined)
ErrDownload == Error("Download error!", Undefined)
ErrWriteStream == Error("writeStream: the file could not be written", Undefined)
ErrNotFound == Error("Activation Bytes where not found!", Undefined)
ErrSpawn == Error("spawn: the subprocess could not be started", Undefined)
\* What child.stderr hands to reject is the chunk, not an Error: it has no message.
ErrStderr == Error("undefined", Undefined)
ErrProvideBytes(plat) ==
  Error(IF plat = "win32"
        THEN "Please provide activation bytes with -a <bytes> or select a device using -d <number>"
        ELSE "Please provide activation bytes with -a <bytes>",
        Undefined)

\* ------------------------------------------------------------ device registry
\* The reserved value of the registry: entries equal to it are no devices.
Sentinel == <<"F","F","F","F","F","F","F","F">>

\* The enumeration with the _.reject step left out.
rejectNothing(entries) == entries

\* _.reject(entries, (n) => n.toUpperCase() === 'FFFFFFFF')
rejectSentinel(entries) == SelectSeq(entries, LAMBDA n : toUpperCase(n) /= Sentinel)

\* fetchActivationBytesFromDevices(): what its promise settles with, given whether
\* regeditList is a function and what the registry answers.
fetchActivationBytesFromDevices(hasRegedit, reg) ==
  IF ~hasRegedit
  THEN [ok |-> FALSE, devices |-> <<>>, err |-> ErrNoRegedit]
  ELSE IF reg.err
  THEN [ok |-> FALSE, devices |-> <<>>, err |-> ErrRegistry]
  ELSE LET entries == rejectSentinel([i \in 1..Len(reg.values) |->
                                        extractBytes(reg.values[i])])
       IN IF Len(entries) > 0
          THEN [ok |-> TRUE, devices |-> entries, err |-> NoError]
          ELSE [ok |-> FALSE, devices |-> <<>>, err |-> ErrNoDevices]

\* The handler taking the last of the devices where it takes the first.
last(devices) == IF devices = <<>> THEN Undefined ELSE Str(devices[Len(devices)])

\* _.first(devices)
first(devices) == IF devices = <<>> THEN Undefined ELSE Str(devices[1])

\* devices[program.device]: the element the key names, undefined otherwise.
arrayGet(devices, key) ==
  IF /\ key.kind = "string"
     /\ IsArrayIndex(key.str)
     /\ digitsValue(key.str) < Len(devices)
  THEN Str(devices[digitsValue(key.str) + 1])
  ELSE Undefined

\* The handler without its `throw`: an absent device falls back to the bytes
\* chosen before.
fetchActivationBytesThenFallback(devices, prog) ==
  LET bytes0 == IF Truthy(first(devices)) THEN first(devices) ELSE Str(<<>>)
      bytes1 == IF Truthy(prog.activationBytes) THEN prog.activationBytes ELSE bytes0
      atDevice == arrayGet(devices, prog.device)
      bytes2 == IF Truthy(atDevice) THEN atDevice ELSE bytes1
  IN [ok |-> TRUE, val |-> bytes2, err |-> NoError]

\* The .then((devices) => ...) handler of fetchActivationBytes.
fetchActivationBytesThen(devices, prog) ==
  LET bytes0 == IF Truthy(first(devices)) THEN first(devices) ELSE Str(<<>>)
      bytes1 == IF Truthy(prog.activationBytes) THEN prog.activationBytes ELSE bytes0
      atDevice == arrayGet(devices, prog.device)
      bytes2 == IF Truthy(atDevice) THEN atDevice ELSE bytes1
  IN IF Truthy(prog.device) /\ ~Truthy(atDevice)
     THEN [ok |-> FALSE, val |-> Undefined, err |-> ErrDeviceNotFound(prog.device)]
     ELSE [ok |-> TRUE, val |-> bytes2, err |-> NoError]

\* fetchActivationBytes as the earlier version of the script had it (lines
\* 82-101): the registry is read on win32 even when -a was given.
fetchActivationBytesEarlier(plat, hasRegedit, prog, reg) ==
  IF plat /= "win32"
  THEN [ok |-> TRUE, val |-> prog.activationBytes, err |-> NoError,
        consulted |-> FALSE, devices |-> <<>>]
  ELSE LET d == fetchActivationBytesFromDevices(hasRegedit, reg)
           r == fetchActivationBytesThen(d.devices, prog)
       IN IF ~d.ok
          THEN [ok |-> FALSE, val |-> Undefined, err |-> d.err,
                consulted |-> TRUE, devices |-> <<>>]
          ELSE [ok |-> r.ok, val |-> r.val, err |-> r.err,
                consulted |-> TRUE, devices |-> d.devices]

\* fetchActivationBytes(): what its promise settles with. `reg` is what the
\* registry answers if it is asked; `consulted` tells whether it was asked and
\* `devices` what the enumeration gave.
fetchActivationBytes(plat, hasRegedit, prog, reg) ==
  IF plat /= "win32" \/ Truthy(prog.activationBytes)
  THEN [ok |-> TRUE, val |-> prog.activationBytes, err |-> NoError,
        consulted |-> FALSE, devices |-> <<>>]
  ELSE LET d == fetchActivationBytesFromDevices(hasRegedit, reg)
           r == fetchActivationBytesThen(d.devices, prog)
       IN IF ~d.ok
          THEN [ok |-> FALSE, val |-> Undefined, err |-> d.err,
                consulted |-> TRUE, devices |-> <<>>]
          ELSE [ok |-> r.ok, val |-> r.val, err |-> r.err,
                consulted |-> TRUE, devices |-> d.devices]

\* ------------------------------------------------------------ input domains
\* Byte arrays found as values under the registry key: the reserved all-ones
\* value and an activation secret (stored low byte first, with a tail). A key
\* with a second secret holds SecondSecret in front of it.
RegistryValues == { <<255, 255, 255, 255>>, <<218, 0, 235, 28, 7>> }
SecondSecret == <<10, 11, 12, 13>>

RECURSIVE SeqsUpTo(_, _)
SeqsUpTo(S, n) ==
  IF n = 0 THEN { <<>> }
  ELSE LET shorter == SeqsUpTo(S, n - 1)
       IN shorter \cup { Append(q, x) : q \in { t \in shorter : Len(t) = n - 1 }, x \in S }

\* What regeditList(AudibleDevicesKey) answers when it is called: an error, or
\* the values of the key. NoRegistry stands while it has not been called.
NoRegistry == [asked |-> FALSE, err |-> TRUE, values |-> <<>>]
RegistryAnswers ==
  { [asked |-> TRUE, err |-> TRUE, values |-> <<>>] }
    \cup { [asked |-> TRUE, err |-> FALSE, values |-> v] :
             v \in SeqsUpTo(RegistryValues, MaxDevices)
                     \cup { <<SecondSecret, <<218, 0, 235, 28, 7>> >> } }

\* The bytes the values the `list` command is run on are made of, and those
\* values: every array of 4 of them, and one longer.
SampleBytes == { 0, 7, 160, 255 }
ListRegistryAnswers ==
  RegistryAnswers
    \cup { [asked |-> TRUE, err |-> FALSE, values |-> <<v>>] :
             v \in [1..ActivationLength -> SampleBytes] \cup { <<7, 160, 0, 255, 9>> } }

\* program.option('-a, --activation-bytes <value>', ..., /^[A-Fa-f0-9]{8}$/i, false):
\* what is typed is taken if the pattern matches it, else the default, false.
optionActivationBytes(typed) ==
  IF /\ typed.kind = "string"
     /\ Len(typed.str) = 8
     /\ \A i \in 1..Len(typed.str) : IsHexDigit(typed.str[i])
  THEN typed
  ELSE Bool(FALSE)

\* What is typed after -a: nothing, 8 hex digits in lower case, the reserved
\* value, too few digits, or a letter that is no hex digit.
TypedActivationBytes ==
  { Undefined,
    Str(<<"1","c","e","b","0","0","d","a">>),
    Str(<<"F","F","F","F","F","F","F","F">>),
    Str(<<"1","C","E","B">>),
    Str(<<"1","C","E","B","0","0","D","G">>) }

\* program.activationBytes
ActivationBytesArgs == { optionActivationBytes(typed) : typed \in TypedActivationBytes }

\* program.device: undefined, or the digits typed after -d.
DeviceArgs == { Undefined } \cup { Str(numberToString10(n)) : n \in 0..MaxDevices }

\* The files the glob pattern expands to: the first two in one directory, and
\* the title tag each of them bears (every other file the same).
InputFile(i) ==
  <<(IF i <= 2 THEN "a" ELSE "b"), "/", Digits[i + 1], ".", "a", "a", "x">>
TitleTag(i) == IF i % 2 = 1 THEN Str(<<"T">>) ELSE Str(<<"U",":"," ">>)

\* program.output and program.path: undefined, or what is typed after -o and -p.
OutputArgs == { Undefined, Str(<<"o","/","b","o","o","k",".","m","4","a">>) }
PathArgs == { Undefined, Str(<<"o","u","t">>) }

\* The options of a run: every choice of -a, -d and -l without -o and -p, and,
\* off win32, every choice of -o and -p with the activation bytes given.
Programs(plat) ==
  [activationBytes : ActivationBytesArgs,
   device : (IF plat = "win32" THEN DeviceArgs ELSE { Undefined }),
   loop : BOOLEAN, output : { Undefined }, path : { Undefined }]
    \cup [activationBytes : { optionActivationBytes(Str(<<"1","c","e","b","0","0","d","a">>)) },
          device : { Undefined }, loop : { FALSE },
          output : (IF plat = "win32" THEN { Undefined } ELSE OutputArgs),
          path : (IF plat = "win32" THEN { Undefined } ELSE PathArgs)]

\* The major_brand tag ffprobe reports, when it reports one, and
\* result.format.duration in milliseconds: 20.5 s, half a second, and 3800 s
\* for the file whose tag needs trimming.
BrandTags ==
  { [major_brand |-> Undefined, duration |-> 7384500],
    [major_brand |-> Str(<<"a","a","x">>), duration |-> 20500],
    [major_brand |-> Str(<<"a","a","x">>), duration |-> 500],
    [major_brand |-> Str(<<"A","A","X"," ">>), duration |-> 3800000],
    [major_brand |-> Str(<<"M","4","A"," ">>), duration |-> 7384500] }

\* The timemarks of ffmpeg's progress messages: the text, and the elapsed time
\* it stands for, in whole seconds and in milliseconds. A run reports those
\* that lie within the duration of its input.
Timemarks ==
  { [text |-> <<"1",":","0","2",":","0","3">>, seconds |-> 3723, millis |-> 3723000],
    [text |-> <<"0","0",":","0","0",":","0","0",".","2","5">>, seconds |-> 0,
     millis |-> 250],
    [text |-> <<"0","0",":","0","0",":","2","0",".","5","0">>, seconds |-> 20,
     millis |-> 20500] }
TimemarksWithin(duration) == { msg \in Timemarks : msg.millis <= duration }

\* What ffprobe(input) settles with for the i-th file: an error, a result whose
\* format has no tags object, or a result with tags (artist and date the same
\* for every file).
ProbeResults(i) ==
  { [kind |-> "error", major_brand |-> Undefined, artist |-> Undefined,
     title |-> Undefined, date |-> Undefined, duration |-> 0] }
    \cup { [kind |-> "notags", major_brand |-> Undefined, artist |-> Undefined,
             title |-> Undefined, date |-> Undefined, duration |-> 7384500] }
    \cup { [kind |-> "tags", major_brand |-> t.major_brand, artist |-> Str(<<"A">>),
             title |-> TitleTag(i), date |-> Str(<<"2","0","1","5">>),
             duration |-> t.duration] :
             t \in BrandTags }
NoProbeResult ==
  [kind |-> "none", major_brand |-> Undefined, artist |-> Undefined, title |-> Undefined,
   date |-> Undefined, duration |-> 0]

\* The input file as fs.read finds it: its length, and its bytes given by a
\* generator (the byte at offset o is (o * mult + add) % 256).
FileLengths == { 0, 653, 654, 660, 672, 673, 700 }
Contents ==
  { [len |-> l, mult |-> 7, add |-> 3] : l \in FileLengths }
    \cup { [len |-> 672, mult |-> 0, add |-> 0] }
\* The files of a batch, and the file `lookup` is given, are long enough for the
\* whole checksum; the `checksum` command is run on every file of Contents.
BatchContents == { c \in Contents : c.mult = 7 /\ c.len = 700 }
NoContent == [len |-> 0 - 1, mult |-> 0, add |-> 0]
FileByte(c, o) == (o * c.mult + c.add) % 256

\* ------------------------------------------------------------ fetchChecksum
\* Buffer.alloc(n): n zero bytes.
BufferAlloc(n) == [i \in 1..n |-> 0]

\* fs.read(fd, buffer, offset, length, position): the bytes the file holds from
\* `position` on, at most `length` of them, are copied into the buffer
\* from `offset` on; the rest of the buffer is left as it was. A short read is no error.
bytesRead(c, length, position) ==
  IF c.len - position <= 0 THEN 0
  ELSE IF c.len - position < length THEN c.len - position ELSE length

read(c, buf, offset, length, position) ==
  [i \in 1..Len(buf) |->
     IF offset < i /\ i <= offset + bytesRead(c, length, position)
     THEN FileByte(c, position + i - offset - 1)
     ELSE buf[i]]

\* ------------------------------------------------------------ fetchMetadata
NoMetadata ==
  [filetype |-> <<>>, artist |-> <<>>, title |-> <<>>, date |-> <<>>, durationRaw |-> 0,
   checksum |-> <<>>]

\* The .spread((result, checksum) => ...) handler: the metadata record.
fetchMetadataSpread(result, checksum) ==
  [filetype |-> IF Truthy(result.major_brand)
                THEN toLowerCase(trim(result.major_brand.str))
                ELSE <<>>,
   artist |-> IF Truthy(result.artist) THEN trim(result.artist.str) ELSE <<>>,
   title |-> IF Truthy(result.title) THEN trim(result.title.str) ELSE <<>>,
   date |-> IF Truthy(result.date) THEN trim(result.date.str) ELSE <<>>,
   durationRaw |-> result.duration \div 1000,
   checksum |-> toLowerCase(bytesToHex(checksum))]

AAX == <<"a","a","x">>

\* fetchMetadata without the filetype check of its last .then.
fetchMetadataUnchecked(result, checksum) ==
  IF result.kind = "error"
  THEN [ok |-> FALSE, metadata |-> NoMetadata, err |-> ErrProbe]
  ELSE IF result.kind = "notags"
  THEN [ok |-> FALSE, metadata |-> NoMetadata, err |-> ErrTagsUndefined]
  ELSE [ok |-> TRUE, metadata |-> fetchMetadataSpread(result, checksum), err |-> NoError]

\* What fetchMetadata settles with once ffprobe and fetchChecksum have both
\* completed: reading result.format.tags.major_brand throws without a tags
\* object, and a filetype other than 'aax' is refused.
fetchMetadata(result, checksum) ==
  IF result.kind = "error"
  THEN [ok |-> FALSE, metadata |-> NoMetadata, err |-> ErrProbe]
  ELSE IF result.kind = "notags"
  THEN [ok |-> FALSE, metadata |-> NoMetadata, err |-> ErrTagsUndefined]
  ELSE LET metadata == fetchMetadataSpread(result, checksum)
       IN IF metadata.filetype /= AAX
          THEN [ok |-> FALSE, metadata |-> metadata, err |-> ErrNotAAX]
          ELSE [ok |-> TRUE, metadata |-> metadata, err |-> NoError]

\* ------------------------------------------------------------ extractDownloadURL
NoDescriptor ==
  [custId |-> <<>>, productId |-> <<>>, codec |-> <<>>, title |-> <<>>,
   url |-> [host |-> "", path |-> <<>>]]

\* extractDownloadURL taking '' for a field that is not matched.
extractDownloadURLLenient(content) ==
  LET custId == match(content, KeyCustId, "wordsThenNotAmp")
      productId == match(content, KeyProductId, "wordsThenNotAmp")
      codec == match(content, KeyCodec, "wordsThenNotAmp")
      title == match(content, KeyTitle, "notAmps")
  IN [ok |-> TRUE, err |-> NoError,
      result |-> [custId |-> custId.group, productId |-> productId.group,
                  codec |-> codec.group, title |-> title.group,
                  url |-> downloadURL(productId.group, custId.group, codec.group)]]

\* The .then((content) => ...) of extractDownloadURL: .pop() of a match that
\* is null throws, which the .catch turns into the rejection of the promise.
extractDownloadURL(content) ==
  LET custId == match(content, KeyCustId, "wordsThenNotAmp")
      productId == match(content, KeyProductId, "wordsThenNotAmp")
      codec == match(content, KeyCodec, "wordsThenNotAmp")
      title == match(content, KeyTitle, "notAmps")
  IN IF custId.matched /\ productId.matched /\ codec.matched /\ title.matched
     THEN [ok |-> TRUE, err |-> NoError,
           result |-> [custId |-> custId.group, productId |-> productId.group,
                       codec |-> codec.group, title |-> title.group,
                       url |-> downloadURL(productId.group, custId.group, codec.group)]]
     ELSE [ok |-> FALSE, err |-> ErrPopOfNull, result |-> NoDescriptor]

\* The license files the `download` command is run on: the four fields, one
\* with a value of a single character, the fields in another order with a line
\* end after the last, one file for each field left out, and an empty file.
CustAAA == KeyCustId \o <<"A","A","A">>
ProductBBB == KeyProductId \o <<"B","B","B">>
CodecC1 == KeyCodec \o <<"C","1">>
TitleMyBook == KeyTitle \o <<"M","y","+","B","o","o","k">>
Amp == <<"&">>
ExampleLicense == CustAAA \o Amp \o ProductBBB \o Amp \o CodecC1 \o Amp \o TitleMyBook
Licenses ==
  { ExampleLicense,
    KeyCustId \o <<"A">> \o Amp \o ProductBBB \o Amp \o CodecC1 \o Amp \o TitleMyBook,
    KeyTitle \o <<"T">> \o Amp \o KeyCodec \o <<"L","C","_","6","4">> \o Amp
      \o KeyProductId \o <<"B","K","-","1">> \o Amp \o KeyCustId \o <<"x","_","y","\n">>,
    ProductBBB \o Amp \o CodecC1 \o Amp \o TitleMyBook,
    CustAAA \o Amp \o CodecC1 \o Amp \o TitleMyBook,
    CustAAA \o Amp \o ProductBBB \o Amp \o TitleMyBook,
    CustAAA \o Amp \o ProductBBB \o Amp \o CodecC1,
    <<>> }

\* The chunks the rcrack subprocess writes: the line with the answer, its two
\* halves, and a line of the progress report.
Chunks ==
  { Hex \o <<"1","C","E","B","0","0","D","A","\n">>,
    Hex \o <<"1","C","E","B">>,
    <<"0","0","D","A","\n">>,
    <<"s","e","a","r","c","h","i","n","g","\n">> }

\* response.statusCode
StatusCodes == { 200, 302, 404 }

\* x.toFixed(0) of the fraction num/den: the nearest whole number.
toFixed0(num, den) == ((2 * num) + den) \div (2 * den)

\* ------------------------------------------------------------ state
VARIABLES
  command,      \* the command line action run: "convert" (main), "list", "checksum"
  platform,     \* os.platform()
  regeditList,  \* TRUE when regeditList is a function (win32, regedit installed)
  program,      \* the options: activationBytes, device, loop
  argument,     \* what the `lookup` command is given: "file" or "checksum"
  nfiles,       \* how many files the glob pattern expands to; they are 1..nfiles
  pc,           \* the command: "start", "running", "done", "caught" (its .catch ran)
  cur,          \* the file converter/fetchMetadata was last started on (0: none)
  total,        \* the accumulator of Promise.reduce
  outcome,      \* per file: "none", "converted" or "failed"
  probe,        \* ffprobe of the current file: "idle", "running", "done"
  probeResult,  \* what ffprobe settled with
  cksum,        \* fetchChecksum of the current file: "idle", "opening", "reading", "done"
  buffer,       \* fetchChecksum's buffer
  content,      \* the file as the read found it
  openFds,      \* descriptors opened by fetchChecksum and not closed
  cksumErr,     \* the error fetchChecksum caught and logged, if any
  metadata,     \* the metadata record of the current file, once assembled
  conv,         \* converter on the current file: "idle", "metadata", "resolving",
                \* "decode", "cover", "loop", "resolved", "rejected"
  failure,      \* the error the current promise chain was rejected with
  registry,     \* what the registry answered in the current resolution, if asked
  resolved,     \* what fetchActivationBytes / fetchActivationBytesFromDevices
                \* settled with: done, ok, val, err, consulted
  devices,      \* what fetchActivationBytesFromDevices enumerated
  spawned,      \* the ffprobe and ffmpeg runs started for the current file, in order
  secret,       \* the activationBytes argument of convertAudiobook
  stage,        \* the ffmpeg runs of the current file, each "idle", "running",
                \* "end" or "error"
  stdout,       \* the reports printed with console.log
  errors,       \* the errors logged by the command's .catch
  statusLine,   \* the line process.stdout.write keeps rewriting (ended by '\r')
  adh,          \* readFile(adhFile): "none", "reading", "read" or "error", and the content
  descriptor,   \* what extractDownloadURL resolved with
  request,      \* https.get: "none", "sent", "response", "ended", "aborted", "error",
                \* and the arguments of download
  response,     \* the response: statusCode, content-length, and the bytes received
                \* in 'data' events
  writeStream,  \* fs.createWriteStream(output): its descriptor, whether end() was
                \* called, whether 'finish' was emitted, the bytes it holds and
                \* the bytes it has written to the file
  downloaded,   \* the promise of download: "none", "pending", "resolved", "rejected"
  child,        \* the rcrack subprocess: its state and the data events it has emitted
  cracked,      \* the promise of rcrack: "none", "pending", "resolved", "rejected",
                \* and the chunk or error it settled with
  outputs       \* per file: the paths converter has set for its artifacts

config == <<command, platform, regeditList, program, argument, nfiles>>
batch == <<pc, cur, total, outcome, stdout, errors>>
checksumVars == <<cksum, buffer, content, openFds, cksumErr>>
probeVars == <<probe, probeResult>>
resolution == <<registry, resolved, devices, secret>>
pipeline == <<metadata, conv, failure, stage, spawned>>
downloadVars == <<adh, descriptor, request, response, writeStream, downloaded>>
lookupVars == <<child, cracked>>
adapters == <<downloadVars, lookupVars>>
conversion ==
  <<cur, total, outcome, checksumVars, probeVars, resolution, metadata, conv, stage,
    spawned, statusLine>>
vars ==
  <<config, batch, checksumVars, probeVars, resolution, pipeline, statusLine, adapters,
    outputs>>

Platforms == { "win32", "linux" }
Commands == { "convert", "list", "checksum", "download", "lookup" }
IdleStages == [decode |-> "idle", cover |-> "idle", loop |-> "idle"]
NoAdh == [state |-> "none", content |-> <<>>]
NoRequest == [state |-> "none", url |-> [host |-> "", path |-> <<>>], output |-> <<>>]
NoResponse == [statusCode |-> 0, totalBytes |-> 0, receivedBytes |-> 0]
NoWriteStream ==
  [fd |-> "none", path |-> <<>>, ended |-> FALSE, finished |-> FALSE,
   buffered |-> 0, written |-> 0]
NoChild == [state |-> "none", stdout |-> <<>>, stderr |-> 0]
NoCracked == [state |-> "none", output |-> <<>>]
NoStatus == [line |-> "", timemark |-> <<>>, percent |-> Finite(0)]
NoResolution ==
  [done |-> FALSE, ok |-> FALSE, val |-> Undefined, err |-> NoError, consulted |-> FALSE]

Init ==
  /\ command \in Commands
  /\ platform \in Platforms
  /\ regeditList \in (IF platform = "win32" THEN BOOLEAN ELSE { FALSE })
  /\ program \in Programs(platform)
  /\ argument \in (IF command = "lookup" THEN { "file", "checksum" } ELSE { "file" })
  /\ nfiles \in (IF command = "convert" THEN 0..MaxFiles
                 ELSE IF command = "checksum" \/ (command = "lookup" /\ argument = "file")
                 THEN { 1 } ELSE { 0 })
  /\ (command /= "convert" =>
        program = [activationBytes |-> Bool(FALSE), device |-> Undefined, loop |-> FALSE,
                   output |-> Undefined, path |-> Undefined])
  /\ pc = "start"
  /\ cur = 0
  /\ total = 0
  /\ outcome = [i \in 1..nfiles |-> "none"]
  /\ probe = "idle"
  /\ probeResult = NoProbeResult
  /\ cksum = "idle"
  /\ buffer = <<>>
  /\ content = NoContent
  /\ openFds = 0
  /\ cksumErr = NoError
  /\ metadata = NoMetadata
  /\ conv = "idle"
  /\ failure = NoError
  /\ registry = NoRegistry
  /\ resolved = NoResolution
  /\ devices = <<>>
  /\ spawned = <<>>
  /\ secret = Undefined
  /\ stage = IdleStages
  /\ stdout = <<>>
  /\ errors = <<>>
  /\ statusLine = NoStatus
  /\ adh = NoAdh
  /\ descriptor = NoDescriptor
  /\ request = NoRequest
  /\ response = NoResponse
  /\ writeStream = NoWriteStream
  /\ downloaded = "none"
  /\ child = NoChild
  /\ cracked = NoCracked
  /\ outputs = [i \in 1..nfiles |-> NoOutputs]

\* ------------------------------------------------------------ main's reports
\* `Finished converting ${total > 1 ? total : 'one'} Audiobook${total > 1 ? 's' : ''}!`
Finished(n) ==
  [line |-> "Finished converting",
   count |-> IF n > 1 THEN numberToString10(n) ELSE <<"o","n","e">>,
   plural |-> n > 1]

\* fetchMetadata(file) is called: ffprobe and fetchChecksum are started side by
\* side; fetchChecksum allocates its buffer and asks for the file to be opened.
StartMetadata(i) ==
  /\ cur' = i
  /\ probe' = "running"
  /\ probeResult' = NoProbeResult
  /\ cksum' = "opening"
  /\ buffer' = BufferAlloc(ChecksumLength)
  /\ content' = NoContent
  /\ cksumErr' = NoError
  /\ metadata' = NoMetadata
  /\ failure' = NoError
  /\ spawned' = <<"ffprobe">>
  /\ UNCHANGED openFds

\* converter(file) is called.
StartConverter(i) ==
  /\ StartMetadata(i)
  /\ conv' = "metadata"
  /\ stage' = IdleStages
  /\ registry' = NoRegistry
  /\ resolved' = NoResolution
  /\ devices' = <<>>
  /\ secret' = Undefined

\* The .catch at the end of a command's chain: the error is logged, nothing
\* else is done.
Caught(e) ==
  /\ pc' = "caught"
  /\ errors' = Append(errors, e)
  /\ failure' = e

\* converter(file) is rejected with e: Promise.reduce is rejected with it, the
\* reducer is not called for the files that follow, main's .then is skipped and
\* its .catch logs e.
ConverterRejected(e) ==
  /\ conv' = "rejected"
  /\ outcome' = [outcome EXCEPT ![cur] = "failed"]
  /\ Caught(e)
  /\ UNCHANGED <<cur, total, stdout, spawned>>

\* converter(file) is resolved, its last stage left as `st`: the reducer returns
\* ++total, and Promise.reduce calls it for the next file or, after the last,
\* resolves with the total, which main's .then reports.
ConverterResolved(st) ==
  /\ outcome' = [outcome EXCEPT ![cur] = "converted"]
  /\ total' = total + 1
  /\ IF cur < nfiles
     THEN /\ StartConverter(cur + 1)
          /\ UNCHANGED <<pc, stdout, errors>>
     ELSE /\ conv' = "resolved"
          /\ stage' = st
          /\ UNCHANGED spawned
          /\ pc' = "done"
          /\ stdout' = Append(stdout, Finished(total + 1))
          /\ UNCHANGED <<cur, errors, failure, probeVars, checksumVars, metadata,
                         resolution>>

\* fetchMetadata settles with r; what the caller's chain does next. converter
\* goes on to fetchActivationBytes, the checksum command prints the checksum.
MetadataSettled(r) ==
  /\ metadata' = r.metadata
  /\ IF command = "convert"
     THEN IF r.ok
          THEN /\ conv' = "resolving"
               /\ outputs' = [outputs EXCEPT
                                ![cur] = converterThen(InputFile(cur), program, r.metadata)]
               /\ UNCHANGED <<failure, batch, spawned>>
          ELSE /\ ConverterRejected(r.err)
               /\ UNCHANGED outputs
     ELSE /\ UNCHANGED <<conv, cur, total, outcome, spawned, outputs>>
          /\ IF r.ok
             THEN IF command = "lookup"
                  THEN /\ pc' = "metadata"
                       /\ UNCHANGED <<stdout, errors, failure>>
                  ELSE /\ pc' = "done"
                       /\ stdout' = Append(stdout, [line |-> "Checksum for",
                                                    checksum |-> r.metadata.checksum])
                       /\ UNCHANGED <<errors, failure>>
             ELSE /\ Caught(r.err)
                  /\ UNCHANGED stdout

\* TRUE while the metadata chain waits for fetchChecksum alone.
AwaitsChecksum == probe = "done" /\ probeResult.kind /= "error"

\* ------------------------------------------------------------ actions
\* main(inputFile): the glob expands to the files 1..nfiles and Promise.reduce
\* starts on them; for no file it resolves with the initial value 0 at once.
MainStart ==
  /\ command = "convert" /\ pc = "start"
  /\ IF nfiles = 0
     THEN /\ pc' = "done"
          /\ stdout' = Append(stdout, Finished(0))
          /\ UNCHANGED <<cur, total, outcome, errors, probeVars, checksumVars,
                         resolution, pipeline>>
     ELSE /\ pc' = "running"
          /\ StartConverter(1)
          /\ UNCHANGED <<total, outcome, stdout, errors>>
  /\ UNCHANGED <<config, outputs, adapters, statusLine>>

\* The `checksum` command: fetchMetadata(inputFile).
ChecksumStart ==
  /\ command = "checksum" /\ pc = "start"
  /\ pc' = "running"
  /\ StartMetadata(1)
  /\ UNCHANGED <<config, outputs, adapters, total, outcome, stdout, errors, resolution, conv,
                 stage,
                 statusLine>>

\* The `list` command: refused off win32, else fetchActivationBytesFromDevices().
ListStart ==
  /\ command = "list" /\ pc = "start"
  /\ IF platform /= "win32"
     THEN /\ pc' = "done"
          /\ errors' = Append(errors, Error("This command is only available on Windows",
                                            Undefined))
     ELSE /\ pc' = "running"
          /\ UNCHANGED errors
  /\ UNCHANGED <<config, outputs, adapters, cur, total, outcome, stdout, probeVars,
                 checksumVars,
                 resolution, pipeline, statusLine>>

\* The `list` command's chain settles: the devices are printed, `Device k: v`
\* for each, or the error is logged.
ListDone ==
  /\ command = "list" /\ pc = "running"
  /\ \E reg \in ListRegistryAnswers :
       LET d == fetchActivationBytesFromDevices(regeditList, reg)
       IN /\ registry' = IF regeditList THEN reg ELSE NoRegistry
          /\ resolved' = [done |-> TRUE, ok |-> d.ok, val |-> Undefined,
                          err |-> d.err, consulted |-> TRUE]
          /\ devices' = d.devices
          /\ IF d.ok
             THEN /\ pc' = "done"
                  /\ stdout' = Append(stdout,
                                      [line |-> "Activation bytes of registered devices:",
                                       devices |-> d.devices])
                  /\ UNCHANGED <<errors, failure>>
             ELSE /\ Caught(d.err)
                  /\ UNCHANGED stdout
  /\ UNCHANGED <<config, outputs, adapters, cur, total, outcome, probeVars, checksumVars,
                 secret,
                 metadata, conv, stage, spawned, statusLine>>

\* ffprobe(input) settles. An error rejects Promise.all at once; a result waits
\* for fetchChecksum unless that has completed.
ProbeDone ==
  /\ probe = "running"
  /\ \E r \in ProbeResults(cur) :
       /\ probe' = "done"
       /\ probeResult' = r
       /\ IF r.kind = "error" \/ cksum = "done"
          THEN MetadataSettled(fetchMetadata(r, buffer))
          ELSE UNCHANGED <<metadata, conv, failure, batch, spawned, outputs>>
  /\ UNCHANGED <<config, adapters, checksumVars, resolution, stage, statusLine>>

\* fetchChecksum without its .catch: an error of open rejects fetchChecksum, and
\* with it Promise.all, unless ffprobe has rejected that before.
OpenDoneUncaught ==
  /\ cksum = "opening"
  /\ \E ok \in BOOLEAN :
       IF ok
       THEN /\ cksum' = "reading"
            /\ openFds' = openFds + 1
            /\ UNCHANGED <<buffer, content, cksumErr, metadata, conv, failure, batch, spawned,
                           outputs>>
       ELSE /\ cksum' = "done"
            /\ cksumErr' = ErrOpen
            /\ UNCHANGED <<buffer, content, openFds>>
            /\ IF probe = "done" /\ probeResult.kind = "error"
               THEN UNCHANGED <<metadata, conv, failure, batch, spawned, outputs>>
               ELSE MetadataSettled([ok |-> FALSE, metadata |-> NoMetadata, err |-> ErrOpen])
  /\ UNCHANGED <<config, adapters, probeVars, resolution, stage, statusLine>>

\* open(file, 'r') settles. With a descriptor the read is issued; an error is
\* caught and logged, and fetchChecksum returns its buffer as allocated.
OpenDone ==
  /\ cksum = "opening"
  /\ \E ok \in BOOLEAN :
       IF ok
       THEN /\ cksum' = "reading"
            /\ openFds' = openFds + 1
            /\ UNCHANGED <<buffer, content, cksumErr, metadata, conv, failure, batch, spawned,
                           outputs>>
       ELSE /\ cksum' = "done"
            /\ cksumErr' = ErrOpen
            /\ UNCHANGED <<buffer, content, openFds>>
            /\ IF AwaitsChecksum
               THEN MetadataSettled(fetchMetadata(probeResult, buffer))
               ELSE UNCHANGED <<metadata, conv, failure, batch, spawned, outputs>>
  /\ UNCHANGED <<config, adapters, probeVars, resolution, stage, statusLine>>

\* read(fd, buffer, 0, buffer.length, 653) settles: the buffer holds what the
\* file had there; an error is caught and logged. fetchChecksum returns the
\* buffer either way and leaves the descriptor open.
ReadDone ==
  /\ cksum = "reading"
  /\ cksum' = "done"
  /\ \/ \E c \in (IF command = "checksum" THEN Contents ELSE BatchContents) :
          /\ content' = c
          /\ buffer' = read(c, buffer, 0, Len(buffer), ChecksumPosition)
          /\ UNCHANGED cksumErr
     \/ /\ cksumErr' = ErrRead
        /\ UNCHANGED <<buffer, content>>
  /\ IF AwaitsChecksum
     THEN MetadataSettled(fetchMetadata(probeResult, buffer'))
     ELSE UNCHANGED <<metadata, conv, failure, batch, spawned, outputs>>
  /\ UNCHANGED <<config, adapters, probeVars, openFds, resolution, stage, statusLine>>

\* The handler without the `if (!bytes)` guard.
ConverterWithBytesUnchecked(bytes) ==
  /\ secret' = bytes
  /\ stage' = [stage EXCEPT !.decode = "running"]
  /\ spawned' = Append(spawned, "ffmpeg decode")
  /\ conv' = "decode"
  /\ UNCHANGED <<failure, batch>>

\* converter's .then((bytes) => ...): no stage is started without bytes; with
\* bytes convertAudiobook starts the Decode run of ffmpeg.
ConverterWithBytes(bytes) ==
  IF ~Truthy(bytes)
  THEN /\ ConverterRejected(ErrProvideBytes(platform))
       /\ UNCHANGED <<secret, stage>>
  ELSE /\ secret' = bytes
       /\ stage' = [stage EXCEPT !.decode = "running"]
       /\ spawned' = Append(spawned, "ffmpeg decode")
       /\ conv' = "decode"
       /\ UNCHANGED <<failure, batch>>

\* fetchActivationBytes() settles; the registry, if the call reads it, answers reg.
\* (Whether it reads it does not hang on the answer.)
ActivationBytesDone ==
  /\ conv = "resolving"
  /\ \E reg \in (IF fetchActivationBytes(platform, regeditList, program, NoRegistry).consulted
                 THEN RegistryAnswers ELSE { NoRegistry }) :
       LET r == fetchActivationBytes(platform, regeditList, program, reg)
       IN /\ registry' = IF r.consulted /\ regeditList THEN reg ELSE NoRegistry
          /\ resolved' = [done |-> TRUE, ok |-> r.ok, val |-> r.val, err |-> r.err,
                          consulted |-> r.consulted]
          /\ devices' = r.devices
          /\ IF r.ok
             THEN ConverterWithBytes(r.val)
             ELSE /\ ConverterRejected(r.err)
                  /\ UNCHANGED <<secret, stage>>
  /\ UNCHANGED <<config, outputs, adapters, probeVars, checksumVars, metadata, statusLine>>

\* A reducer that lets go of the file once its Decode run has ended: converter
\* is started on the next file while the stages that remain are not yet run.
DecodeEndStartsNext ==
  /\ conv = "decode" /\ stage.decode = "running"
  /\ IF cur < nfiles
     THEN /\ StartConverter(cur + 1)
          /\ UNCHANGED <<pc, total, outcome, stdout, errors, openFds>>
     ELSE /\ stage' = [stage EXCEPT !.decode = "end", !.cover = "running"]
          /\ spawned' = Append(spawned, "ffmpeg cover")
          /\ conv' = "cover"
          /\ UNCHANGED <<batch, probeVars, checksumVars, resolution, metadata, failure>>
  /\ statusLine' = NoStatus
  /\ UNCHANGED <<config, outputs, adapters>>

\* convertAudiobook's run reports 'end': extractCoverImage starts its run.
DecodeEnd ==
  /\ conv = "decode" /\ stage.decode = "running"
  /\ stage' = [stage EXCEPT !.decode = "end", !.cover = "running"]
  /\ spawned' = Append(spawned, "ffmpeg cover")
  /\ conv' = "cover"
  /\ statusLine' = NoStatus
  /\ UNCHANGED <<config, outputs, adapters, batch, probeVars, checksumVars, resolution,
                 metadata, failure>>

\* convertAudiobook's run reports 'progress': the status line is rewritten
\* with the percentage of the duration the timemark stands for.
DecodeProgress ==
  /\ conv = "decode" /\ stage.decode = "running"
  /\ \E msg \in TimemarksWithin(probeResult.duration) :
       statusLine' = [line |-> "Converting Audiobook",
                      timemark |-> msg.text,
                      percent |-> currentTimemarkToPercent(msg.text, metadata.durationRaw)]
  /\ UNCHANGED <<config, outputs, adapters, batch, probeVars, checksumVars, resolution,
                 pipeline>>

\* convertAudiobook's 'error' handler calling resolve() instead of reject(err).
DecodeErrorResolves ==
  /\ conv = "decode" /\ stage.decode = "running"
  /\ stage' = [stage EXCEPT !.decode = "error", !.cover = "running"]
  /\ spawned' = Append(spawned, "ffmpeg cover")
  /\ conv' = "cover"
  /\ statusLine' = NoStatus
  /\ UNCHANGED <<config, outputs, adapters, batch, probeVars, checksumVars, resolution,
                 metadata, failure>>

\* convertAudiobook's run reports 'error': converter is rejected with it.
DecodeError ==
  /\ conv = "decode" /\ stage.decode = "running"
  /\ stage' = [stage EXCEPT !.decode = "error"]
  /\ ConverterRejected(ErrFfmpeg("decode"))
  /\ statusLine' = NoStatus
  /\ UNCHANGED <<config, outputs, adapters, probeVars, checksumVars, resolution, metadata>>

\* converter's last .then without the `if (program.loop)`.
CoverEndAlwaysLoops ==
  /\ conv = "cover" /\ stage.cover = "running"
  /\ stage' = [stage EXCEPT !.cover = "end", !.loop = "running"]
  /\ spawned' = Append(spawned, "ffmpeg loop")
  /\ conv' = "loop"
  /\ UNCHANGED <<config, outputs, adapters, batch, probeVars, checksumVars, resolution,
                 metadata, failure,
                 statusLine>>

\* extractCoverImage's run reports 'end': addLoopedImage starts its run if
\* program.loop is set, else converter is resolved.
CoverEnd ==
  /\ conv = "cover" /\ stage.cover = "running"
  /\ IF program.loop
     THEN /\ stage' = [stage EXCEPT !.cover = "end", !.loop = "running"]
          /\ spawned' = Append(spawned, "ffmpeg loop")
          /\ conv' = "loop"
          /\ UNCHANGED <<batch, probeVars, checksumVars, resolution, metadata, failure>>
     ELSE ConverterResolved([stage EXCEPT !.cover = "end"])
  /\ UNCHANGED <<config, outputs, adapters, statusLine>>

\* extractCoverImage's run reports 'error'.
CoverError ==
  /\ conv = "cover" /\ stage.cover = "running"
  /\ stage' = [stage EXCEPT !.cover = "error"]
  /\ ConverterRejected(ErrFfmpeg("cover"))
  /\ UNCHANGED <<config, outputs, adapters, probeVars, checksumVars, resolution, metadata,
                 statusLine>>

\* addLoopedImage's run reports 'progress'.
LoopProgress ==
  /\ conv = "loop" /\ stage.loop = "running"
  /\ \E msg \in TimemarksWithin(probeResult.duration) :
       statusLine' = [line |-> "Adding looped cover image to Audiobook",
                      timemark |-> msg.text,
                      percent |-> currentTimemarkToPercent(msg.text, metadata.durationRaw)]
  /\ UNCHANGED <<config, outputs, adapters, batch, probeVars, checksumVars, resolution,
                 pipeline>>

\* addLoopedImage's run reports 'end': converter is resolved.
LoopEnd ==
  /\ conv = "loop" /\ stage.loop = "running"
  /\ ConverterResolved([stage EXCEPT !.loop = "end"])
  /\ statusLine' = NoStatus
  /\ UNCHANGED <<config, outputs, adapters, adapters>>

\* addLoopedImage's run reports 'error'.
LoopError ==
  /\ conv = "loop" /\ stage.loop = "running"
  /\ stage' = [stage EXCEPT !.loop = "error"]
  /\ ConverterRejected(ErrFfmpeg("loop"))
  /\ statusLine' = NoStatus
  /\ UNCHANGED <<config, outputs, adapters, probeVars, checksumVars, resolution, metadata>>

\* ------------------------------------------------------------ download
\* The `download` command: extractDownloadURL(inputFile) asks for the file.
DownloadStart ==
  /\ command = "download" /\ pc = "start"
  /\ pc' = "running"
  /\ adh' = [state |-> "reading", content |-> <<>>]
  /\ UNCHANGED <<config, outputs, conversion, stdout, errors, failure, descriptor, request,
                 response, writeStream, downloaded, lookupVars>>

\* readFile(adhFile) settles. With the four matches extractDownloadURL resolves
\* and the command's .then calls download(result.url, `${sanitize(result.title)}.aax`),
\* which sends the request; a read error or a failed match rejects.
LicenseRead ==
  /\ adh.state = "reading"
  /\ \/ /\ adh' = [state |-> "error", content |-> <<>>]
        /\ Caught(ErrReadFile)
        /\ UNCHANGED <<descriptor, request, downloaded>>
     \/ \E text \in Licenses :
          LET r == extractDownloadURL(text)
          IN /\ adh' = [state |-> "read", content |-> text]
             /\ descriptor' = r.result
             /\ IF r.ok
                THEN /\ request' = [state |-> "sent", url |-> r.result.url,
                                    output |-> sanitize(r.result.title)
                                                 \o <<".","a","a","x">>]
                     /\ downloaded' = "pending"
                     /\ UNCHANGED <<pc, errors, failure>>
                ELSE /\ Caught(r.err)
                     /\ UNCHANGED <<request, downloaded>>
  /\ UNCHANGED <<config, outputs, conversion, stdout, response, writeStream, lookupVars>>

\* The response taken as it comes, as by the version of download built on
\* request.get (src/unnamed/part_000, lines 190-214): no look at the status.
ResponseArrivesUnchecked ==
  /\ request.state = "sent"
  /\ request' = [request EXCEPT !.state = "response"]
  /\ \E statusCode \in StatusCodes, length \in 0..MaxBytes :
       /\ response' = [statusCode |-> statusCode, totalBytes |-> length,
                       receivedBytes |-> 0]
       /\ writeStream' = [NoWriteStream EXCEPT !.fd = "opening", !.path = request.output]
       /\ UNCHANGED <<downloaded, pc, errors, failure>>
  /\ UNCHANGED <<config, outputs, conversion, stdout, adh, descriptor, lookupVars>>

\* The callback of https.get: any status but 200 rejects with 'Download error!';
\* with 200 the write stream is created and the response piped into it.
ResponseArrives ==
  /\ request.state = "sent"
  /\ request' = [request EXCEPT !.state = "response"]
  /\ \E statusCode \in StatusCodes, length \in 0..MaxBytes :
       /\ response' = [statusCode |-> statusCode, totalBytes |-> length,
                       receivedBytes |-> 0]
       /\ IF statusCode /= 200
          THEN /\ downloaded' = "rejected"
               /\ Caught(ErrDownload)
               /\ UNCHANGED writeStream
          ELSE /\ writeStream' = [NoWriteStream EXCEPT !.fd = "opening",
                                                       !.path = request.output]
               /\ UNCHANGED <<downloaded, pc, errors, failure>>
  /\ UNCHANGED <<config, outputs, conversion, stdout, adh, descriptor, lookupVars>>

\* The request emits 'error' before a response: no listener is registered for
\* it, so the event is thrown and ends the process.
RequestError ==
  /\ request.state = "sent"
  /\ request' = [request EXCEPT !.state = "error"]
  /\ pc' = "crashed"
  /\ UNCHANGED <<config, outputs, conversion, stdout, errors, failure, adh, descriptor,
                 response,
                 writeStream, downloaded, lookupVars>>

\* response 'data': the chunk is counted and the status line rewritten; the
\* pipe hands the chunk to the write stream unless that has failed.
ResponseData ==
  /\ request.state = "response" /\ response.statusCode = 200
  /\ \E length \in 1..(response.totalBytes - response.receivedBytes) :
       /\ response' = [response EXCEPT !.receivedBytes = @ + length]
       /\ writeStream' = IF writeStream.fd = "failed" THEN writeStream
                         ELSE [writeStream EXCEPT !.buffered = @ + length]
       /\ statusLine' = [line |-> "Downloading", timemark |-> <<>>,
                         percent |-> Finite(toFixed0((response.receivedBytes + length) * 100,
                                                     response.totalBytes))]
  /\ UNCHANGED <<config, outputs, batch, checksumVars, probeVars, resolution, pipeline, adh,
                 descriptor, request, downloaded, lookupVars>>

\* The write stream has opened its file.
WriteOpen ==
  /\ writeStream.fd = "opening"
  /\ writeStream' = [writeStream EXCEPT !.fd = "open"]
  /\ UNCHANGED <<config, outputs, batch, checksumVars, probeVars, resolution, pipeline,
                 statusLine,
                 adh, descriptor, request, response, downloaded, lookupVars>>

\* The write stream writes what it holds to the file.
WriteFlush ==
  /\ writeStream.fd = "open" /\ writeStream.buffered > 0
  /\ writeStream' = [writeStream EXCEPT !.written = @ + writeStream.buffered,
                                        !.buffered = 0]
  /\ UNCHANGED <<config, outputs, batch, checksumVars, probeVars, resolution, pipeline,
                 statusLine,
                 adh, descriptor, request, response, downloaded, lookupVars>>

\* writeStream 'error' (the file cannot be opened or written): the line is
\* ended and download rejected.
WriteError ==
  /\ writeStream.fd \in { "opening", "open" } /\ ~writeStream.finished
  /\ writeStream' = [writeStream EXCEPT !.fd = "failed"]
  /\ statusLine' = NoStatus
  /\ downloaded' = "rejected"
  /\ Caught(ErrWriteStream)
  /\ UNCHANGED <<config, outputs, conversion, stdout, adh, descriptor, request, response,
                 lookupVars>>

\* response 'end' resolving download, as the version built on request.get did
\* (src/unnamed/part_000, lines 208-211): the write stream is not waited for.
ResponseEndResolves ==
  /\ request.state = "response" /\ response.statusCode = 200
  /\ response.receivedBytes = response.totalBytes
  /\ request' = [request EXCEPT !.state = "ended"]
  /\ writeStream' = IF writeStream.fd = "failed" THEN writeStream
                    ELSE [writeStream EXCEPT !.ended = TRUE]
  /\ IF downloaded = "pending"
     THEN /\ downloaded' = "resolved"
          /\ pc' = "done"
          /\ stdout' = Append(stdout, [line |-> "Download complete!"])
     ELSE UNCHANGED <<downloaded, pc, stdout>>
  /\ UNCHANGED <<config, outputs, conversion, errors, failure, statusLine, adh, descriptor,
                 response,
                 lookupVars>>

\* response 'end': the pipe calls end() on the write stream.
ResponseEnd ==
  /\ request.state = "response" /\ response.statusCode = 200
  /\ response.receivedBytes = response.totalBytes
  /\ request' = [request EXCEPT !.state = "ended"]
  /\ writeStream' = IF writeStream.fd = "failed" THEN writeStream
                    ELSE [writeStream EXCEPT !.ended = TRUE]
  /\ UNCHANGED <<config, outputs, batch, checksumVars, probeVars, resolution, pipeline,
                 statusLine,
                 adh, descriptor, response, downloaded, lookupVars>>

\* The connection is lost in mid-transfer: the response emits 'aborted' and
\* 'close', for which nothing is registered, and never 'end'.
ResponseAborted ==
  /\ request.state = "response" /\ response.statusCode = 200
  /\ request' = [request EXCEPT !.state = "aborted"]
  /\ UNCHANGED <<config, outputs, batch, checksumVars, probeVars, resolution, pipeline,
                 statusLine,
                 adh, descriptor, response, writeStream, downloaded, lookupVars>>

\* writeStream 'finish', emitted once end() was called and all it held is
\* written: the line is ended and writeStream.close(resolve) called.
WriteFinish ==
  /\ writeStream.fd = "open" /\ writeStream.ended /\ ~writeStream.finished
  /\ writeStream.buffered = 0
  /\ writeStream' = [writeStream EXCEPT !.finished = TRUE]
  /\ statusLine' = NoStatus
  /\ UNCHANGED <<config, outputs, batch, checksumVars, probeVars, resolution, pipeline, adh,
                 descriptor, request, response, downloaded, lookupVars>>

\* The write stream has closed its file: close's callback resolves download and
\* the command's .then reports.
WriteClosed ==
  /\ writeStream.fd = "open" /\ writeStream.finished
  /\ writeStream' = [writeStream EXCEPT !.fd = "closed"]
  /\ downloaded' = "resolved"
  /\ pc' = "done"
  /\ stdout' = Append(stdout, [line |-> "Download complete!"])
  /\ UNCHANGED <<config, outputs, conversion, errors, failure, adh, descriptor, request,
                 response,
                 lookupVars>>

\* ------------------------------------------------------------ lookup
\* The checksum typed as the argument of `lookup`.
ChecksumArgument ==
  <<"0","1","2","3","4","5","6","7","8","9","a","b","c","d","e","f","0","1","2","3",
    "4","5","6","7","8","9","a","b","c","d","e","f","0","1","2","3","4","5","6","7">>

\* lookupChecksum(checksum): two lines are printed and rcrack spawns the
\* subprocess and registers its three listeners.
lookupChecksum(checksum) ==
  /\ stdout' = Append(stdout, [line |-> "Looking up activation bytes for checksum:",
                               checksum |-> checksum])
  /\ child' = [state |-> "running", stdout |-> <<>>, stderr |-> 0]
  /\ cracked' = [state |-> "pending", output |-> <<>>]

\* The `lookup` command: with a checksum lookupChecksum is called at once, with
\* a file fetchMetadata first.
LookupStart ==
  /\ command = "lookup" /\ pc = "start"
  /\ pc' = "running"
  /\ IF argument = "checksum"
     THEN /\ lookupChecksum(ChecksumArgument)
          /\ UNCHANGED <<conversion, failure>>
     ELSE /\ StartMetadata(1)
          /\ UNCHANGED <<total, outcome, stdout, resolution, conv, stage, statusLine,
                         lookupVars>>
  /\ UNCHANGED <<config, outputs, errors, downloadVars>>

\* The .then((metadata) => ...) of the `lookup` command given a file.
LookupWithMetadata ==
  /\ command = "lookup" /\ pc = "metadata"
  /\ pc' = "running"
  /\ lookupChecksum(metadata.checksum)
  /\ UNCHANGED <<config, outputs, conversion, errors, failure, downloadVars>>

\* The .then((output) => ...) of lookupChecksum: the bytes are printed when the
\* output matches, else the error is thrown, which the command's .catch logs.
lookupChecksumThen(output) ==
  LET matches == matchHex(output)
  IN IF ~matches.matched
     THEN /\ Caught(ErrNotFound)
          /\ UNCHANGED stdout
     ELSE /\ pc' = "done"
          /\ stdout' = Append(stdout, [line |-> "Activation Bytes found:",
                                       bytes |-> matches.group])
          /\ UNCHANGED <<errors, failure>>

\* child 'error': the subprocess could not be started; reject is called.
ChildError ==
  /\ child.state = "running" /\ child.stdout = <<>> /\ child.stderr = 0
  /\ child' = [child EXCEPT !.state = "failed"]
  /\ cracked' = [state |-> "rejected", output |-> <<>>]
  /\ Caught(ErrSpawn)
  /\ UNCHANGED <<config, outputs, conversion, stdout, downloadVars>>

\* child.stdout 'data': resolve is called with the chunk; it settles the
\* promise if nothing has settled it yet, and lookupChecksum's .then runs.
ChildStdoutData ==
  /\ child.state = "running" /\ Len(child.stdout) < MaxChunks
  /\ \E chunk \in Chunks :
       /\ child' = [child EXCEPT !.stdout = Append(@, chunk)]
       /\ IF cracked.state = "pending"
          THEN /\ cracked' = [state |-> "resolved", output |-> chunk]
               /\ lookupChecksumThen(chunk)
          ELSE UNCHANGED <<cracked, pc, stdout, errors, failure>>
  /\ UNCHANGED <<config, outputs, conversion, downloadVars>>

\* child.stderr 'data': reject is called with the chunk; it settles the promise
\* if nothing has settled it yet, and the command's .catch logs.
ChildStderrData ==
  /\ child.state = "running" /\ child.stderr < 1
  /\ child' = [child EXCEPT !.stderr = @ + 1]
  /\ IF cracked.state = "pending"
     THEN /\ cracked' = [state |-> "rejected", output |-> <<>>]
          /\ Caught(ErrStderr)
     ELSE UNCHANGED <<cracked, pc, errors, failure>>
  /\ UNCHANGED <<config, outputs, conversion, stdout, downloadVars>>

\* The subprocess ends and its streams are closed: nothing listens to that.
ChildExit ==
  /\ child.state = "running"
  /\ child' = [child EXCEPT !.state = "exited"]
  /\ UNCHANGED <<config, outputs, batch, checksumVars, probeVars, resolution, pipeline,
                 statusLine,
                 downloadVars, cracked>>

Next ==
  \/ MainStart
  \/ ChecksumStart
  \/ ListStart
  \/ ListDone
  \/ ProbeDone
  \/ OpenDone
  \/ ReadDone
  \/ ActivationBytesDone
  \/ DecodeProgress
  \/ DecodeEnd
  \/ DecodeError
  \/ CoverEnd
  \/ CoverError
  \/ LoopProgress
  \/ LoopEnd
  \/ LoopError
  \/ DownloadStart
  \/ LicenseRead
  \/ ResponseArrives
  \/ RequestError
  \/ ResponseData
  \/ WriteOpen
  \/ WriteFlush
  \/ WriteError
  \/ ResponseEnd
  \/ ResponseAborted
  \/ WriteFinish
  \/ WriteClosed
  \/ LookupStart
  \/ LookupWithMetadata
  \/ ChildError
  \/ ChildStdoutData
  \/ ChildStderrData
  \/ ChildExit

Spec == Init /\ [][Next]_vars

\* The steps that hang on nothing outside the program are taken once they are
\* due: a .then callback whose promise is resolved runs, and a write stream
\* that can open its file, write what it holds, emit 'finish' or close, does.
\* Of the network it is taken that a request sent ends in a response or in an
\* error, and a response in its 'end' or in the loss of the connection.
FairSpec ==
  /\ Spec
  /\ WF_vars(ResponseArrives \/ RequestError)
  /\ WF_vars(ResponseData \/ ResponseEnd \/ ResponseAborted)
  /\ WF_vars(LookupWithMetadata)
  /\ WF_vars(WriteOpen)
  /\ WF_vars(WriteFlush)
  /\ WF_vars(WriteFinish)
  /\ WF_vars(WriteClosed)

\* ============================================================ properties
\* main's chain has settled: its .then reported or its .catch logged.
MainSettled == command = "convert" /\ pc \in { "done", "caught" }

\* A final count has been reported.
CountReported == \E k \in 1..Len(stdout) : stdout[k].line = "Finished converting"

\* fetchActivationBytes has settled for the current file.
ResolutionDone == command = "convert" /\ resolved.done

\* The current file's metadata chain has got past ffprobe and fetchChecksum.
BothCompleted == probe = "done" /\ probeResult.kind /= "error" /\ cksum = "done"

\* The stage runs that are going on.
Running == { k \in { "decode", "cover", "loop" } : stage[k] = "running" }

\* C1: when converter has failed on a file of the batch, converter is still
\* started on every later file and main ends with a report of the count of
\* converted files. Stated on the states where main's chain has settled: every
\* file of the batch has been started and the count has been reported.
C1_FailureDoesNotAbortBatch ==
  (MainSettled /\ \E n \in 1..nfiles : outcome[n] = "failed")
    => (cur = nfiles /\ CountReported)

\* C2: when an explicit secret was supplied, fetchActivationBytes returns it,
\* whatever the platform, the registry and the requested device: the resolution
\* settles with the secret and without an error, the registry is not asked, and
\* the Decode stage is handed that secret.
C2_ExplicitSecretWins ==
  (ResolutionDone /\ Truthy(program.activationBytes))
    => /\ resolved.ok
       /\ resolved.val = program.activationBytes
       /\ ~registry.asked
       /\ secret = program.activationBytes
       /\ stage.decode /= "idle"

C2_Witness ==
  /\ ResolutionDone
  /\ platform = "win32" /\ regeditList
  /\ Truthy(program.activationBytes)
  /\ Truthy(program.device)
  /\ secret = program.activationBytes
  /\ stage.decode = "running"

\* C3: the list fetchActivationBytesFromDevices returns holds no entry equal to
\* FFFFFFFF in either case, so the `list` command prints none and a secret that
\* comes from the device table (the first entry or the requested one) is not it.
C3_NoSentinelDevice ==
  /\ \A i \in 1..Len(devices) : toUpperCase(devices[i]) /= Sentinel
  /\ command = "list" =>
       \A k \in 1..Len(stdout) :
         \A i \in 1..Len(stdout[k].devices) :
           toUpperCase(stdout[k].devices[i]) /= Sentinel
  /\ (ResolutionDone /\ resolved.consulted /\ resolved.ok) =>
       /\ resolved.val.kind = "string"
       /\ toUpperCase(resolved.val.str) /= Sentinel
       /\ secret = resolved.val

\* The registry answered with the reserved value in front of a usable one, and
\* the enumeration went through.
C3_Witness ==
  /\ registry.asked /\ ~registry.err
  /\ Len(registry.values) >= 2
  /\ registry.values[1] = <<255, 255, 255, 255>>
  /\ devices /= <<>>
  /\ \/ command = "list" /\ stdout /= <<>>
     \/ ResolutionDone /\ resolved.ok /\ stage.decode = "running"

\* The device table the registry answer amounts to: empty when the
\* enumeration failed or was not made.
DeviceAbsent == ~Truthy(arrayGet(devices, program.device))

\* C4 as stated: on win32 with the registry at hand, when a device number is
\* requested that the enumerated device table does not hold, fetchActivationBytes
\* fails with the 'Device Nr. <index> not found' error naming it and returns no
\* secret.
C4_AbsentDeviceIsNotFound ==
  (ResolutionDone /\ platform = "win32" /\ regeditList /\ ~(registry.asked /\ registry.err)
     /\ Truthy(program.device) /\ DeviceAbsent)
    => /\ ~resolved.ok
       /\ resolved.err = ErrDeviceNotFound(program.device)
       /\ secret = Undefined

\* C4, amended: with no explicit secret, when the enumeration gave at least
\* one device and the requested number is not among them, fetchActivationBytes
\* fails with the 'Device Nr. <index> not found' error naming it, returns no
\* secret and starts no stage; when the enumeration itself failed, its error
\* is the one fetchActivationBytes fails with.
C4_AbsentDeviceAmended ==
  (ResolutionDone /\ platform = "win32" /\ ~Truthy(program.activationBytes)
     /\ Truthy(program.device) /\ DeviceAbsent)
    => /\ ~resolved.ok
       /\ secret = Undefined
       /\ stage = IdleStages
       /\ conv = "rejected"
       /\ failure = resolved.err
       /\ resolved.err =
            IF devices /= <<>> THEN ErrDeviceNotFound(program.device)
            ELSE IF ~regeditList THEN ErrNoRegedit
            ELSE IF registry.err THEN ErrRegistry
            ELSE ErrNoDevices

C4_Witness ==
  /\ ResolutionDone
  /\ ~Truthy(program.activationBytes)
  /\ program.device = Str(<<"1">>)
  /\ Len(devices) = 1
  /\ failure = ErrDeviceNotFound(Str(<<"1">>))

\* The filetype fetchMetadata derives from the probe result of the current file.
FiletypeOf(result) ==
  IF Truthy(result.major_brand) THEN toLowerCase(trim(result.major_brand.str)) ELSE <<>>

\* The current file's probe gave tags whose major_brand is not 'aax' (or is
\* missing), and fetchMetadata has settled.
NotAAXSettled ==
  /\ command = "convert"
  /\ BothCompleted
  /\ probeResult.kind = "tags"
  /\ FiletypeOf(probeResult) /= AAX

C6_NoDecodeWithoutSecret ==
  /\ stage.decode /= "idle" =>
       (secret.kind = "string" /\ secret.str /= <<>> /\ secret = resolved.val)
  /\ (ResolutionDone /\ resolved.ok /\ ~Truthy(resolved.val)) =>
       /\ conv = "rejected"
       /\ failure = ErrProvideBytes(platform)
       /\ stage = IdleStages
       /\ spawned = <<"ffprobe">>

C6_Witness ==
  /\ ResolutionDone
  /\ resolved.ok /\ resolved.val = Bool(FALSE)
  /\ failure = ErrProvideBytes(platform)
  /\ stage = IdleStages

\* C7: the stages of a file run in the order Decode, ExtractCover, Loop:
\* ExtractCover is started only once Decode has ended, Loop only once
\* ExtractCover has ended, Loop is started exactly when looping was requested,
\* and no two stages are running at a time.
C7_StagesInOrder ==
  /\ stage.cover /= "idle" => stage.decode = "end"
  /\ stage.loop /= "idle" => (stage.cover = "end" /\ program.loop)
  /\ (stage.cover = "end" /\ program.loop) => stage.loop /= "idle"
  /\ Cardinality(Running) <= 1
  /\ spawned \in { <<>>, <<"ffprobe">>, <<"ffprobe", "ffmpeg decode">>,
                   <<"ffprobe", "ffmpeg decode", "ffmpeg cover">>,
                   <<"ffprobe", "ffmpeg decode", "ffmpeg cover", "ffmpeg loop">> }

C7_Witness ==
  /\ stage = [decode |-> "end", cover |-> "end", loop |-> "running"]
  /\ program.loop

\* C8: after a stage has reported an error no later stage of the file is
\* started, and converter has failed with that error.
C8_StageErrorAborts ==
  /\ stage.decode = "error" =>
       (stage.cover = "idle" /\ stage.loop = "idle"
          /\ conv = "rejected" /\ failure = ErrFfmpeg("decode"))
  /\ stage.cover = "error" =>
       (stage.loop = "idle" /\ conv = "rejected" /\ failure = ErrFfmpeg("cover"))
  /\ stage.loop = "error" => (conv = "rejected" /\ failure = ErrFfmpeg("loop"))
  /\ (\E k \in { "decode", "cover", "loop" } : stage[k] = "error") =>
       (Running = {} /\ outcome[cur] = "failed" /\ pc = "caught")

C8_Witness ==
  /\ stage = [decode |-> "end", cover |-> "error", loop |-> "idle"]
  /\ program.loop
  /\ conv = "rejected"

\* C9: for a file shorter than 673 bytes fetchChecksum does not fail and
\* returns the all-zero fingerprint of 20 bytes.
C9_ShortFileGivesZeros ==
  (cksum = "done" /\ content /= NoContent
     /\ content.len < ChecksumPosition + ChecksumLength)
    => buffer = BufferAlloc(ChecksumLength)

\* The lowercase rendering of a byte as two hex digits.
TwoDigits(b) == <<HexDigits[(b \div 16) + 1], HexDigits[(b % 16) + 1]>>

\* The 20 bytes at the offsets 653..672 of the file, each as two lowercase
\* hex digits, in file order.
ExpectedChecksum(c) ==
  [j \in 1..(2 * ChecksumLength) |->
     TwoDigits(FileByte(c, ChecksumPosition + ((j - 1) \div 2)))[((j - 1) % 2) + 1]]

\* C10: for a file of at least 673 bytes that was read, the checksum of the
\* metadata record is the 20 bytes at the offsets 653..672, in file order, as
\* 40 lowercase hex digits, two per byte; the `checksum` command prints it.
C10_ChecksumIsTheTwentyBytes ==
  /\ (BothCompleted /\ probeResult.kind = "tags" /\ content /= NoContent
        /\ content.len >= ChecksumPosition + ChecksumLength)
       => (Len(metadata.checksum) = 40 /\ metadata.checksum = ExpectedChecksum(content))
  /\ (command = "checksum" /\ pc = "done" /\ content /= NoContent
        /\ content.len >= ChecksumPosition + ChecksumLength)
       => stdout = <<[line |-> "Checksum for", checksum |-> ExpectedChecksum(content)]>>

C10_Witness ==
  /\ command = "checksum" /\ pc = "done"
  /\ content.len = ChecksumPosition + ChecksumLength
  /\ content.mult /= 0
  /\ stdout /= <<>>
  /\ metadata.checksum = ExpectedChecksum(content)

\* The progress message the status line was last written for.
LastTimemark == CHOOSE msg \in Timemarks : msg.text = statusLine.timemark

\* The status line shows the timemark '1:02:03' of a file of 3800 seconds.
ExampleTimemark ==
  /\ statusLine.timemark = <<"1",":","0","2",":","0","3">>
  /\ metadata.durationRaw = 3800

\* C11 as stated: currentTimemarkToPercent of the timemark '1:02:03' and a
\* total of 3800 seconds is 98.
C11_ExampleIs98 == ExampleTimemark => statusLine.percent = Finite(98)

\* C11, amended: for every timemark H:MM:SS (with or without a fraction of
\* seconds) and total > 0 the percentage a stage writes to the status line is
\* floor((H*3600 + MM*60 + floor(SS)) * 100 / total); for '1:02:03' and 3800
\* seconds that is floor(372300 / 3800) = 97.
C11_PercentOfElapsed ==
  /\ (command = "convert" /\ statusLine /= NoStatus /\ metadata.durationRaw > 0) =>
       statusLine.percent = Finite((LastTimemark.seconds * 100) \div metadata.durationRaw)
  /\ ExampleTimemark =>
       /\ statusLine.percent = Finite(((3600 + 120 + 3) * 100) \div 3800)
       /\ statusLine.percent = Finite(97)

C11_Witness ==
  /\ ExampleTimemark
  /\ stage.decode = "running"
  /\ statusLine.line = "Converting Audiobook"
  /\ statusLine.percent = Finite(97)

\* The places of a text where a key stands.
Occurs(text, key) ==
  { i \in 1..Len(text) :
      i + Len(key) - 1 <= Len(text) /\ SubSeq(text, i, i + Len(key) - 1) = key }

\* The characters between the first 'key=' of a text and the next '&', or the
\* end of the text.
ValueOf(text, key) ==
  LET p == (CHOOSE i \in Occurs(text, key) : \A j \in Occurs(text, key) : i <= j)
             + Len(key)
      stops == { e \in p..(Len(text) + 1) : e = Len(text) + 1 \/ text[e] = "&" }
      stop == CHOOSE e \in stops : \A f \in stops : e <= f
  IN SubSeq(text, p, stop - 1)

\* The license file was read and holds the four fields, each with a value of
\* one character or more.
FourFields ==
  /\ command = "download" /\ adh.state = "read"
  /\ \A key \in { KeyCustId, KeyProductId, KeyCodec, KeyTitle } :
       Occurs(adh.content, key) /= {} /\ ValueOf(adh.content, key) /= <<>>

\* C12: for the license text 'cust_id=AAA&product_id=BBB&codec=C1&title=My+Book'
\* extractDownloadURL yields the customer id 'AAA', the product id 'BBB', the
\* codec 'C1' and the title 'My Book'; for every license text with the four
\* fields it yields, for each field, the characters between 'key=' and the
\* next '&' or the end of the content, for values of one character or more.
C12_FieldsAreTheValues ==
  FourFields =>
    /\ downloaded /= "none"
    /\ descriptor.custId = ValueOf(adh.content, KeyCustId)
    /\ descriptor.productId = ValueOf(adh.content, KeyProductId)
    /\ descriptor.codec = ValueOf(adh.content, KeyCodec)
    /\ descriptor.title = IF adh.content = ExampleLicense
                          THEN <<"M","y"," ","B","o","o","k">>
                          ELSE ValueOf(adh.content, KeyTitle)

\* The license file was read and lacks one of the four fields.
MissingField ==
  /\ command = "download" /\ adh.state = "read"
  /\ \E key \in { KeyCustId, KeyProductId, KeyCodec, KeyTitle } :
       Occurs(adh.content, key) = {}

DownloadReported == \E k \in 1..Len(stdout) : stdout[k].line = "Download complete!"

\* C13: when one of the fields cust_id, product_id, codec, title is missing
\* from the license file, extractDownloadURL ends in an error, which the
\* command logs; no request is sent, no destination file is created and
\* 'Download complete!' is not reported.
C13_MissingFieldEndsDownload ==
  MissingField =>
    /\ pc = "caught" /\ failure = ErrPopOfNull /\ errors = <<ErrPopOfNull>>
    /\ descriptor = NoDescriptor
    /\ request = NoRequest /\ response = NoResponse
    /\ downloaded = "none"
    /\ writeStream = NoWriteStream
    /\ ~DownloadReported

C13_Witness ==
  /\ MissingField
  /\ Occurs(adh.content, KeyCustId) /= {}
  /\ Occurs(adh.content, KeyTitle) = {}
  /\ pc = "caught"

\* A response has arrived whose status is not 200.
NonSuccess == request.state /= "none" /\ response /= NoResponse /\ response.statusCode /= 200

\* C14: when the response to download has a status other than success,
\* download ends in the 'Download error!' failure, which the command logs,
\* 'Download complete!' is not reported, no write stream is created for the
\* destination file and nothing of the body is received or written.
C14_NonSuccessIsDownloadError ==
  NonSuccess =>
    /\ downloaded = "rejected"
    /\ pc = "caught" /\ failure = ErrDownload /\ errors = <<ErrDownload>>
    /\ ~DownloadReported
    /\ writeStream = NoWriteStream
    /\ response.receivedBytes = 0

C14_Witness ==
  /\ NonSuccess
  /\ response.statusCode = 404 /\ response.totalBytes > 0
  /\ downloaded = "rejected"

\* The standard output of the subprocess so far, taken as a whole.
RECURSIVE Concat(_)
Concat(chunks) == IF chunks = <<>> THEN <<>> ELSE Head(chunks) \o Concat(Tail(chunks))

FoundReported == \E k \in 1..Len(stdout) : stdout[k].line = "Activation Bytes found:"

\* C15: once the subprocess has ended, having written nothing to its standard
\* error, lookupChecksum has reported 'Activation Bytes found' if and only if
\* the standard output as a whole, however split into chunks, holds 'hex:' and
\* 8 hex digits; and when there was output without that, lookupChecksum has
\* ended in the 'Activation Bytes where not found!' error.
C15_FoundIffOutputMatches ==
  (command = "lookup" /\ child.state = "exited" /\ child.stderr = 0) =>
    /\ FoundReported <=> matchHex(Concat(child.stdout)).matched
    /\ (child.stdout /= <<>> /\ ~matchHex(Concat(child.stdout)).matched) =>
         (pc = "caught" /\ failure = ErrNotFound)

\* C16: when the subprocess has written data to its standard error, at
\* whatever point of its run, rcrack has ended in failure and lookupChecksum
\* has not reported activation bytes as found; rcrack never both succeeds and
\* fails.
C16_StderrIsFailure ==
  /\ (command = "lookup" /\ child.stderr > 0) =>
       (cracked.state = "rejected" /\ ~FoundReported)
  /\ ~(FoundReported /\ pc = "caught")

\* Something of the current file is going on: its probe, its checksum read or
\* one of its stage runs.
Busy == probe = "running" \/ cksum \in { "opening", "reading" } \/ Running /= {}

\* C17: the files of a batch are taken one at a time in the order of the
\* input. `cur` being the file converter was last started on: every file
\* before it has completed its whole pipeline, no file after it has had
\* anything started, the probe, the checksum read and the stage runs going on
\* are those of `cur` alone, and at most one ffmpeg run is going on.
C17_OneFileAtATime ==
  command = "convert" =>
    /\ cur \in 0..nfiles
    /\ \A n \in 1..nfiles :
         /\ n < cur => outcome[n] = "converted"
         /\ n > cur => outcome[n] = "none"
    /\ total = Cardinality({ n \in 1..nfiles : outcome[n] = "converted" })
    /\ (cur = 0 \/ pc = "done") => ~Busy
    /\ (cur > 0 /\ outcome[cur] = "converted") => ~Busy
    /\ Cardinality(Running) <= 1
    /\ Len(SelectSeq(spawned, LAMBDA x : x = "ffprobe")) <= 1

C17_Witness ==
  /\ command = "convert"
  /\ cur = 2 /\ outcome[1] = "converted"
  /\ stage.decode = "running" /\ program.loop

\* The files of the batch that were converted.
Converted == { n \in 1..nfiles : outcome[n] = "converted" }

\* How a report states the number n: the word for one, digits for the rest.
Stated(n) == IF n = 1 THEN <<"o","n","e">> ELSE numberToString10(n)

\* C18: the counter of main is the number of files whose pipeline completed
\* every requested stage, and the 'Finished converting' report states that
\* number, for every size of the batch, a batch of no file included.
C18_ReportStatesTheCounter ==
  command = "convert" =>
    /\ total = Cardinality(Converted)
    /\ \A k \in 1..Len(stdout) :
         stdout[k].line = "Finished converting" => stdout[k].count = Stated(total)

UpperHex == <<"0","1","2","3","4","5","6","7","8","9","A","B","C","D","E","F">>
IsUpperHex(c) == \E i \in 1..16 : UpperHex[i] = c

\* The Decode run of the current file has been started.
DecodeStarted == command = "convert" /\ stage.decode /= "idle"

\* C19 as stated: the secret handed to convertAudiobook is 8 hex digits in
\* upper case and is not FFFFFFFF, whichever way it was resolved.
C19_SecretIsCanonical ==
  DecodeStarted =>
    /\ secret.kind = "string" /\ Len(secret.str) = 8
    /\ \A i \in 1..Len(secret.str) : IsUpperHex(secret.str[i])
    /\ secret.str /= Sentinel

\* C19, amended: the secret handed to convertAudiobook is 8 hex digits. One
\* that comes from the device table (the first device or the one of the
\* requested number) is in upper case and is not FFFFFFFF; an explicit one is
\* handed on as typed, in either case, FFFFFFFF included.
C19_SecretIsEightHexDigits ==
  DecodeStarted =>
    /\ secret.kind = "string" /\ Len(secret.str) = 8
    /\ \A i \in 1..Len(secret.str) : IsHexDigit(secret.str[i])
    /\ IF Truthy(program.activationBytes)
       THEN secret = program.activationBytes /\ ~resolved.consulted
       ELSE /\ resolved.consulted
            /\ \A i \in 1..Len(secret.str) : IsUpperHex(secret.str[i])
            /\ secret.str /= Sentinel
            /\ \E i \in 1..Len(devices) : secret.str = devices[i]

C19_Witness ==
  /\ DecodeStarted
  /\ ~Truthy(program.activationBytes)
  /\ program.device = Str(<<"1">>)
  /\ Len(registry.values) = 2 /\ Len(registry.values[2]) = 5
  /\ secret = Str(<<"1","C","E","B","0","0","D","A">>)

\* The byte two hex digits stand for.
HexValue(c) == (CHOOSE i \in 1..16 : UpperHex[i] = c) - 1
ByteOf(s, k) == (HexValue(s[(2 * k) - 1]) * 16) + HexValue(s[2 * k])

\* The values of the registry answer that are not the reserved all-ones value,
\* in their order: the i-th of them is what the i-th device was made from.
Kept ==
  SelectSeq(registry.values,
            LAMBDA v : \E k \in 1..ActivationLength : v[k] /= 255)

\* The registry was enumerated and gave devices.
Enumerated == registry.asked /\ ~registry.err /\ devices /= <<>>

\* C20 as stated: extractBytes of a byte array of 4 bytes or more is 8 hex
\* digits in upper case that stand, two digits a byte from left to right, for
\* the first 4 bytes of the array in their order.
C20_HexIsTheBytesInOrder ==
  Enumerated =>
    \A i \in 1..Len(devices) :
      /\ Len(devices[i]) = 8
      /\ \A j \in 1..8 : IsUpperHex(devices[i][j])
      /\ \A k \in 1..ActivationLength : ByteOf(devices[i], k) = Kept[i][k]

\* C20, amended: extractBytes of a byte array of 4 bytes or more is 8 hex
\* digits in upper case that stand, two digits a byte from left to right, for
\* the first 4 bytes of the array in reverse order: the fourth byte first.
C20_HexIsTheBytesReversed ==
  Enumerated =>
    /\ Len(devices) = Len(Kept)
    /\ \A i \in 1..Len(devices) :
         /\ Len(devices[i]) = 8
         /\ \A j \in 1..8 : IsUpperHex(devices[i][j])
         /\ \A k \in 1..ActivationLength :
              ByteOf(devices[i], k) = Kept[i][ActivationLength + 1 - k]

C20_Witness ==
  /\ command = "list" /\ pc = "done"
  /\ registry.values = << <<7, 160, 0, 255, 9>> >>
  /\ devices = << <<"F","F","0","0","A","0","0","7">> >>

\* Neither a secret nor a device is asked for, where there is a registry to read.
NoPreference ==
  /\ command = "convert" /\ platform = "win32" /\ regeditList
  /\ ~Truthy(program.activationBytes)
  /\ program.device = Undefined

\* C21: on win32 with regedit, with neither -a nor -d, fetchActivationBytes
\* resolves with the device made from the first value of the registry answer
\* that is not the reserved one; when the registry cannot be read or holds no
\* such value it is rejected, no value is returned and no stage is started.
C21_DefaultIsFirstUsable ==
  (ResolutionDone /\ NoPreference) =>
    /\ resolved.consulted /\ registry.asked
    /\ IF registry.err \/ Kept = <<>>
       THEN /\ ~resolved.ok
            /\ resolved.val = Undefined
            /\ resolved.err = (IF registry.err THEN ErrRegistry ELSE ErrNoDevices)
            /\ secret = Undefined
            /\ stage = IdleStages
       ELSE /\ resolved.ok
            /\ resolved.val.kind = "string"
            /\ Len(resolved.val.str) = 2 * ActivationLength
            /\ \A k \in 1..ActivationLength :
                 ByteOf(resolved.val.str, k) = Kept[1][ActivationLength + 1 - k]
            /\ secret = resolved.val

\* The registry held two devices that differ, behind or without the reserved
\* value, and Decode runs with the first of them.
C21_Witness ==
  /\ ResolutionDone /\ NoPreference
  /\ Len(Kept) = 2 /\ Kept[1] /= Kept[2]
  /\ resolved.ok /\ secret = Str(devices[1])
  /\ stage.decode = "running"

\* fetchMetadata was rejected for the current file.
MetadataRejected ==
  \/ command = "convert" /\ conv = "rejected" /\ ~resolved.done
  \/ command = "checksum" /\ pc = "caught"
  \/ command = "lookup" /\ argument = "file" /\ pc = "caught" /\ cracked.state = "none"

\* C22: fetchChecksum completes with a buffer of 20 bytes whatever open and
\* read did, and an error of theirs reaches no caller; fetchMetadata is
\* rejected only when ffprobe failed or the major_brand is not 'aax', and
\* with a probe result tagged 'aax' it resolves with a record holding a
\* checksum; the record is assembled only once both ffprobe and fetchChecksum
\* have completed.
C22_ChecksumNeverFails ==
  /\ cksum /= "idle" => Len(buffer) = ChecksumLength
  /\ failure \notin { ErrOpen, ErrRead }
  /\ \A k \in 1..Len(errors) : errors[k] \notin { ErrOpen, ErrRead }
  /\ MetadataRejected =>
       /\ probe = "done"
       /\ probeResult.kind = "error" \/ FiletypeOf(probeResult) /= AAX
  /\ (BothCompleted /\ probeResult.kind = "tags" /\ FiletypeOf(probeResult) = AAX) =>
       /\ ~MetadataRejected
       /\ metadata.filetype = AAX
       /\ Len(metadata.checksum) = 2 * ChecksumLength
  /\ metadata /= NoMetadata => BothCompleted

\* The file could not be opened, ffprobe found an 'aax' file, and the chain went
\* on with a record whose checksum is the buffer as allocated.
C22_Witness ==
  /\ command = "convert"
  /\ cksumErr = ErrOpen
  /\ BothCompleted
  /\ metadata.filetype = AAX
  /\ metadata.checksum = [j \in 1..(2 * ChecksumLength) |-> "0"]
  /\ stage.decode = "running"

\* a <= b for the numbers of JavaScript: false when either is NaN.
LessEq(a, b) ==
  /\ a.kind /= "NaN" /\ b.kind /= "NaN"
  /\ \/ b.kind = "Infinity"
     \/ a.kind = "finite" /\ b.kind = "finite" /\ a.val <= b.val

\* The status lines of the Decode and Loop stages.
StageLines == { "Converting Audiobook", "Adding looped cover image to Audiobook" }

\* The elapsed time a timemark of Timemarks stands for.
MillisOf(timemark) == (CHOOSE msg \in Timemarks : msg.text = timemark).millis

\* C23: when a progress event of a Decode or Loop stage rewrites the status
\* line with a timemark that does not exceed the probed duration, the
\* percentage written lies between 0 and 100, and it is not less than the one
\* written before in the same stage for a timemark that was not later; this for
\* every duration, a duration whose floor is 0 seconds included.
C23_ProgressApproaches100 ==
  [][(/\ statusLine' /= statusLine
      /\ statusLine'.line \in StageLines
      /\ MillisOf(statusLine'.timemark) <= probeResult.duration)
       => /\ LessEq(Finite(0), statusLine'.percent)
          /\ LessEq(statusLine'.percent, Finite(100))
          /\ (/\ statusLine.line = statusLine'.line
              /\ MillisOf(statusLine.timemark) <= MillisOf(statusLine'.timemark))
               => LessEq(statusLine.percent, statusLine'.percent)]_vars

\* C24: once the rcrack subprocess has ended, the promise of rcrack is
\* eventually resolved or rejected, also when the subprocess wrote nothing to
\* its standard output or standard error.
C24_RcrackCompletes ==
  (child.state = "exited") ~> (cracked.state \in { "resolved", "rejected" })

\* C25: once download is called its promise is eventually resolved or
\* rejected, whatever course the transfer takes.
C25_DownloadCompletes ==
  (downloaded = "pending") ~> (downloaded \in { "resolved", "rejected" })

\* The `download` command has printed 'Download complete!'.
CompleteReported ==
  \E k \in 1..Len(stdout) : stdout[k] = [line |-> "Download complete!"]

\* C26: download is resolved, and 'Download complete!' printed, only when the
\* response has ended, the write stream holds nothing more, has written every
\* byte received to the file, has emitted 'finish' and has closed the file.
C26_SuccessAfterWrittenAndClosed ==
  (downloaded = "resolved" \/ (command = "download" /\ CompleteReported)) =>
    /\ downloaded = "resolved" /\ CompleteReported
    /\ request.state = "ended"
    /\ writeStream.buffered = 0
    /\ writeStream.written = response.receivedBytes
    /\ response.receivedBytes = response.totalBytes
    /\ writeStream.ended /\ writeStream.finished
    /\ writeStream.fd = "closed"

\* A download of MaxBytes bytes has been reported complete.
C26_Witness ==
  /\ command = "download" /\ pc = "done"
  /\ CompleteReported
  /\ response.totalBytes = MaxBytes
  /\ writeStream.written = MaxBytes

\* C27: when fetchChecksum has completed, every descriptor it opened is
\* closed: none is held open, however many files the batch has gone through.
C27_DescriptorsAreClosed == cksum \in { "idle", "done" } => openFds = 0

\* The files of the batch converter has set the artifact paths for.
Named == { i \in 1..nfiles : outputs[i] /= NoOutputs }

\* C28: no two files of a batch get the same path for the .m4a, the .png or
\* the .m4v artifact, whatever -o, -p and the files' tags are.
C28_OutputPathsAreDistinct ==
  command = "convert" =>
    \A i, j \in Named :
      i /= j => /\ outputs[i].outputFile /= outputs[j].outputFile
                /\ outputs[i].coverImage /= outputs[j].coverImage
                /\ outputs[i].loopedFile /= outputs[j].loopedFile

====
